---- MODULE Spec2Model ----
(***************************************************************************)
(* Room queue synchronisation of the karaoke application.                  *)
(*                                                                         *)
(* The socket realisation: one Node process holds `rooms` (room id ->      *)
(* queue), persists it to rooms.json after each commit and pushes          *)
(* queueUpdated messages to the sockets of a room.  Every socket handler   *)
(* runs to completion (single-threaded event loop), so a handler is one    *)
(* action.  socket.io delivers the events of one connection in order: the  *)
(* server-to-client direction is the FIFO `inbox` of each socket, and a    *)
(* client command is handled in the step that emits it; the command being  *)
(* slow on the wire is the same as the client not yet having consumed its  *)
(* inbox.  An inbox holds at most MaxInbox messages: when one more is sent  *)
(* to a socket whose inbox is full, its client handles the oldest message   *)
(* first, in the same step.                                                 *)
(***************************************************************************)
EXTENDS Integers, Sequences, FiniteSets, TLC

\* Bounds of the model.
MaxSongs == 3      \* number of addSong commits in one run (uuids 1..MaxSongs)
MaxInbox == 1      \* queueUpdated messages pending towards one socket
MaxSongsXY == 2    \* number of addSong commits in one run of the two-room specification

Sockets == {"s1", "s2"}
RoomIds == {"r1"}
Videos == {"v1"}
Volumes == {50}    \* values of the volume slider other than the initial one
InitialVolume == 100
RoomIdsXY == {"r1", "r2"}   \* the rooms of the two-room specification

\* The Firestore realisation (one room).
MaxDocs == 3       \* queue documents created in one run (ids 1..MaxDocs)
MaxOps == 4        \* operations started in one run of the recorded specification
MaxCommands == 2   \* mute and replay commands sent in one run (ids 1..MaxCommands)
Participants == {"p1", "p2"}
DocIds == 1..MaxDocs
NoRoomId == ""     \* socket.data.roomId before any joinRoom (undefined)

VARIABLES
    rooms,        \* the in-memory rooms object: room id -> queue (sequence of entries)
    disk,         \* content of rooms.json
    sockRoom,     \* socket.data.roomId of each socket
    joined,       \* socket.io room membership of each socket (socket.join)
    inbox,        \* messages emitted to each socket and not yet handled by its client
    clientQueue,  \* the `queue` state of each client component
    clientVolume, \* the `volume` state of each client component
    nextUuid,     \* next fresh uuid (Date.now() + Math.random())
    last,         \* the last step taken and what it found
    writable,     \* whether the file system accepts a write of rooms.json
    fsLive,       \* ids of the documents of the room's queue collection
    fsOrder,      \* the `order` field of each document, in halves (0.5 is 1)
    fsUsed,       \* ids given to documents so far (an auto-id is never reused)
    task,         \* the async handler each participant is running, and its locals
    fsView,       \* the `queue` state of each participant (document ids in order)
    roomDoc,      \* the fields of the room document (no field: no document)
    inRoom,       \* participants whose Room component is mounted
    roomLocal,    \* volume, roomMuted, roomReplayCommandId state of each participant
    nextCommand,  \* next fresh command id (Date.now() + Math.random())
    showPlayer,   \* the showPlayer state of each participant (host mode)
    playerRef,    \* whether playerRef.current of each participant holds a player
    lastAppliedReplayCommandIdRef,  \* the ref of each participant (0 is null)
    seeks,        \* the command ids each participant's player was rewound for
    writtenShown, \* for each command id, whose showPlayer was on when it was written
    AI_UNSUPPORTED_PARAMS,  \* parameter names the upstream AI provider has rejected
    maxTokens,    \* APIPLUS_MAX_TOKENS as parsed (0 is null: not configured)
    aiReq,        \* the parse-song request each HTTP client has in progress
    apiKey,       \* whether APIPLUS_API_KEY is set in the environment
    lyricsList,   \* the `list` the last lrclibSearch of the lyrics panel returned
    lyricsBest,   \* the `best` record picked from it
    currentVideo, \* currentVideo?.id of the lyrics panel ("" is null)
    lyricsLoading,            \* the lyricsLoading state
    lyricsOverrideTrackName,  \* the manual track name in use ("" is none)
    lyricsCache,  \* keys of lyricsCacheRef
    aiParseCache, \* lyricsAiParseCacheRef: what is cached for each video id
    lyricsTask,   \* the calls of loadLyricsForCurrent that are waiting
    ran           \* the operations started so far, where they are recorded

sockVars == <<rooms, disk, sockRoom, joined, inbox, clientQueue, clientVolume, nextUuid, last,
              writable>>
hostVars == <<showPlayer, playerRef, lastAppliedReplayCommandIdRef, seeks, writtenShown>>
docVars == <<roomDoc, inRoom, roomLocal, nextCommand, hostVars>>
fsVars == <<fsLive, fsOrder, fsUsed, task, fsView, ran, docVars>>
aiVars == <<AI_UNSUPPORTED_PARAMS, maxTokens, aiReq, apiKey>>
lyrPanel == <<currentVideo, lyricsLoading, lyricsOverrideTrackName, lyricsCache, aiParseCache,
              lyricsTask>>
lyrVars == <<lyricsList, lyricsBest, lyrPanel>>
vars == <<sockVars, fsVars, aiVars, lyrVars>>

----------------------------------------------------------------------------
\* JavaScript array helpers, with the source's 0-based indexes.

\* queue.findIndex(s => s.uuid === uuid)
FindIndex(queue, uuid) ==
    IF \E i \in 1..Len(queue) : queue[i].uuid = uuid
    THEN (CHOOSE i \in 1..Len(queue) :
              /\ queue[i].uuid = uuid
              /\ \A j \in 1..(i - 1) : queue[j].uuid # uuid) - 1
    ELSE -1

\* array.splice(idx, 1): the array without the element at idx
SpliceOut(queue, idx) ==
    [i \in 1..(Len(queue) - 1) |-> IF i <= idx THEN queue[i] ELSE queue[i + 1]]

\* array.splice(idx, 0, item): item inserted so that it sits at idx
SpliceIn(queue, idx, item) ==
    SubSeq(queue, 1, idx) \o <<item>> \o SubSeq(queue, idx + 1, Len(queue))

\* arrayMove(array, from, to) of @dnd-kit/sortable
arrayMove(array, from, to) ==
    SpliceIn(SpliceOut(array, from), to, array[from + 1])

Uuids(queue) == {queue[i].uuid : i \in 1..Len(queue)}

----------------------------------------------------------------------------
\* Persistence and fan-out.

\* rooms.json after a write that failed part-way: not valid JSON
Unreadable == [r \in {"<truncated>"} |-> << >>]

\* loadRooms(): JSON.parse of the file, {} when there is none or it cannot be
\* parsed
LoadRooms(file) == IF file = Unreadable THEN << >> ELSE file

\* mutant: the file written with the rooms as they were before the command
SaveRooms_Before(newRooms) == disk' = disk

\* saveRooms(rooms): fs.writeFileSync(DATA_FILE, JSON.stringify(rooms)); a
\* write that throws (caught and logged) leaves the file as it was or truncated.
\* The entries hold strings and booleans received as JSON, which
\* JSON.stringify and JSON.parse give back as they were, in array order.
SaveRooms(newRooms) ==
    disk' \in IF writable THEN {newRooms} ELSE {disk, Unreadable}

QueueUpdated(roomId, queue) ==
    [type |-> "queueUpdated", room |-> roomId, queue |-> queue]

VolumeChanged(roomId, volume) ==
    [type |-> "volumeChange", room |-> roomId, volume |-> volume]

\* mutant: a 'queueUpdated' listener that keeps the local queue
QueueAfter_KeepLocal(msg, queue) == queue

\* the client's queue after its 'queueUpdated' listener has seen msg
QueueAfter(msg, queue) == IF msg.type = "queueUpdated" THEN msg.queue ELSE queue

\* the client's volume after its 'volumeChange' listener has seen msg
VolumeAfter(msg, volume) == IF msg.type = "volumeChange" THEN msg.volume ELSE volume

Subscribers(roomId) == {s \in Sockets : roomId \in joined[s]}

\* a message sent to a socket: behind the pending ones, the oldest of which
\* the client has handled if the inbox was full
Push(box, msg) ==
    IF Len(box) < MaxInbox THEN Append(box, msg) ELSE Append(Tail(box), msg)

\* mutant: io.emit('queueUpdated', queue), to every connected socket
Broadcast_ToAll(roomId, queue) ==
    inbox' = [s \in Sockets |-> Push(inbox[s], QueueUpdated(roomId, queue))]

\* io.to(roomId).emit('queueUpdated', queue)
Broadcast(roomId, queue) ==
    inbox' = [s \in Sockets |->
                 IF roomId \in joined[s]
                 THEN Push(inbox[s], QueueUpdated(roomId, queue))
                 ELSE inbox[s]]

\* if (!roomId || !rooms[roomId]) return;
HasRoom(s) == sockRoom[s] # NoRoomId /\ sockRoom[s] \in DOMAIN rooms

\* The record kept of a step: the event handled, the socket, the event's
\* argument, whether the socket's room existed, the length of the queue the
\* handler found, the index of the named uuid in it, whether it committed, and
\* the sockets it sent a message to.
Event(op, s, uuid, isTop, newQueue, committed) ==
    [op |-> op, sock |-> s, uuid |-> uuid, isTop |-> isTop, newQueue |-> newQueue,
     had |-> HasRoom(s),
     len |-> IF HasRoom(s) THEN Len(rooms[sockRoom[s]]) ELSE 0,
     idx |-> IF HasRoom(s) THEN FindIndex(rooms[sockRoom[s]], uuid) ELSE -1,
     committed |-> committed,
     to |-> IF committed THEN Subscribers(sockRoom[s]) ELSE {}]

----------------------------------------------------------------------------
\* The queue computed by each command.

\* { ...song, uuid: Date.now() + Math.random().toString() }
QueueItem(song, uuid) == [uuid |-> uuid, id |-> song.id]

\* mutant: the isTop insertion done with splice(0, 0, queueItem)
AddSongQueue_Unshift(queue, queueItem, isTop) ==
    IF isTop /\ Len(queue) > 0
    THEN SpliceIn(queue, 0, queueItem)
    ELSE Append(queue, queueItem)

\* mutant: isTop ignored, every song pushed
AddSongQueue_AlwaysPush(queue, queueItem, isTop) ==
    Append(queue, queueItem)

AddSongQueue(queue, queueItem, isTop) ==
    IF isTop /\ Len(queue) > 0
    THEN SpliceIn(queue, 1, queueItem)
    ELSE Append(queue, queueItem)

PinSongMoves(queue, uuid) == FindIndex(queue, uuid) > 1

\* mutant: the picked song re-inserted with splice(0, 0, song)
PinSongQueue_ToHead(queue, uuid) ==
    LET songIndex == FindIndex(queue, uuid)
    IN  SpliceIn(SpliceOut(queue, songIndex), 0, queue[songIndex + 1])

PinSongQueue(queue, uuid) ==
    LET songIndex == FindIndex(queue, uuid)
    IN  SpliceIn(SpliceOut(queue, songIndex), 1, queue[songIndex + 1])

\* mutant: the comparison of the two heads left out
ReorderAccepts_NoHeadCheck(queue, newQueue) ==
    /\ Len(queue) > 0
    /\ Len(newQueue) > 0

\* mutant: a proposal taken only while the queue is in the order of insertion
ReorderAccepts_FirstWins(queue, newQueue) ==
    /\ Len(queue) > 0
    /\ Len(newQueue) > 0
    /\ queue[1].uuid = newQueue[1].uuid
    /\ \A i \in 1..(Len(queue) - 1) : queue[i].uuid < queue[i + 1].uuid

ReorderAccepts(queue, newQueue) ==
    /\ Len(queue) > 0
    /\ Len(newQueue) > 0
    /\ queue[1].uuid = newQueue[1].uuid

\* mutant: queue.splice(queue.findIndex(...), 1), which drops the last entry
\* when findIndex returns -1
RemoveSongQueue_Splice(queue, uuid) ==
    LET idx == FindIndex(queue, uuid)
    IN  IF Len(queue) = 0 THEN queue
        ELSE IF idx = -1 THEN SubSeq(queue, 1, Len(queue) - 1)
        ELSE SpliceOut(queue, idx)

RemoveSongQueue(queue, uuid) ==
    SelectSeq(queue, LAMBDA song : song.uuid # uuid)

\* mutant: queue.pop() in place of queue.shift()
ShiftQueue_Pop(queue) == SubSeq(queue, 1, Len(queue) - 1)

ShiftQueue(queue) == Tail(queue)

----------------------------------------------------------------------------
\* The Firestore realisation: the queue is the collection rooms/{roomId}/queue
\* read with orderBy('order', 'asc'); every await of a handler separates two
\* steps.  A queue state is a record [live, order]; order keys are kept in
\* halves, so that head.order + 0.5 is an integer.

\* getDocs/onSnapshot of orderBy('order', 'asc'): by order key, documents with
\* equal keys by document id
Before(st, a, b) ==
    \/ st.order[a] < st.order[b]
    \/ st.order[a] = st.order[b] /\ a < b

Sorted(st) ==
    [i \in 1..Cardinality(st.live) |->
        CHOOSE d \in st.live : Cardinality({e \in st.live : Before(st, e, d)}) = i - 1]

\* the order key addToQueue computes from the items it read
AddOrder(st, isTop) ==
    LET items == Sorted(st)
        lastOrder == IF Len(items) = 0 THEN -2 ELSE st.order[items[Len(items)]]
    IN  IF isTop /\ Len(items) > 0 THEN st.order[items[1]] + 1 ELSE lastOrder + 2

\* setDoc(newDocRef, { ..., order })
WithDoc(st, id, order) ==
    [live |-> st.live \cup {id}, order |-> [st.order EXCEPT ![id] = order]]

\* deleteDoc(ref)
WithoutDoc(st, id) ==
    [live |-> st.live \ {id}, order |-> [st.order EXCEPT ![id] = 0]]

\* mutant: the batch numbering the documents from 1
BatchOrders_OneBased(st, items) ==
    IF \A i \in 1..Len(items) : items[i] \in st.live
    THEN [live |-> st.live,
          order |-> [d \in DocIds |->
                        IF \E i \in 1..Len(items) : items[i] = d
                        THEN 2 * (CHOOSE i \in 1..Len(items) : items[i] = d)
                        ELSE st.order[d]]]
    ELSE st

\* mutant: a batch whose updates of missing documents are skipped
BatchOrders_Partial(st, items) ==
    [live |-> st.live,
     order |-> [d \in DocIds |->
                   IF d \in st.live /\ \E i \in 1..Len(items) : items[i] = d
                   THEN 2 * ((CHOOSE i \in 1..Len(items) : items[i] = d) - 1)
                   ELSE st.order[d]]]

\* a write batch of update(ref(items[idx]), { order: idx }): applied as a whole,
\* or rejected as a whole when one of the documents does not exist
BatchOrders(st, items) ==
    IF \A i \in 1..Len(items) : items[i] \in st.live
    THEN [live |-> st.live,
          order |-> [d \in DocIds |->
                        IF \E i \in 1..Len(items) : items[i] = d
                        THEN 2 * ((CHOOSE i \in 1..Len(items) : items[i] = d) - 1)
                        ELSE st.order[d]]]
    ELSE st

\* the Top button: [playing, picked, ...rest] of the documents read, or nothing
PinItems(items, uuid) ==
    IF Len(items) < 2 \/ \A i \in 2..Len(items) : items[i] # uuid
    THEN << >>
    ELSE <<items[1], uuid>> \o SelectSeq(Tail(items), LAMBDA d : d # uuid)

Store == [live |-> fsLive, order |-> fsOrder]

SetStore(st) == fsLive' = st.live /\ fsOrder' = st.order

\* `ran` where the operations are not recorded
NoHistory == {[op |-> "off", id |-> 0]}

\* `ran` after one more operation has started
Started(op, id) == IF ran = NoHistory THEN ran ELSE ran \cup {[op |-> op, id |-> id]}

Idle == [pc |-> "idle", op |-> "none", items |-> << >>, id |-> 0, order |-> 0]

InitFS ==
    /\ fsLive = {}
    /\ fsOrder = [d \in DocIds |-> 0]
    /\ fsUsed = {}
    /\ task = [p \in Participants |-> Idle]
    /\ fsView = [p \in Participants |-> << >>]

\* addToQueue up to its first await: getDocs, doc(queueColRef), the order key
AddRead(p, isTop, id) ==
    /\ task[p].pc = "idle"
    /\ id \in DocIds \ fsUsed
    /\ task' = [task EXCEPT ![p] = [pc |-> "addWrite",
                                    op |-> IF isTop THEN "addTop" ELSE "add",
                                    items |-> << >>, id |-> id,
                                    order |-> AddOrder(Store, isTop)]]
    /\ fsUsed' = fsUsed \cup {id}
    /\ ran' = Started(IF isTop THEN "addTop" ELSE "add", id)
    /\ UNCHANGED <<sockVars, aiVars, lyrVars, docVars, fsLive, fsOrder, fsView>>

\* await setDoc(newDocRef, ...); then normalizeQueue if isTop
AddWrite(p) ==
    /\ task[p].pc = "addWrite"
    /\ SetStore(WithDoc(Store, task[p].id, task[p].order))
    /\ task' = [task EXCEPT ![p] = IF @.op = "addTop"
                                    THEN [@ EXCEPT !.pc = "normRead"]
                                    ELSE Idle]
    /\ UNCHANGED <<sockVars, aiVars, lyrVars, docVars, ran, fsUsed, fsView>>

\* normalizeQueue: getDocs; return if there is no document
NormRead(p) ==
    /\ task[p].pc = "normRead"
    /\ task' = [task EXCEPT ![p] = IF fsLive = {}
                                    THEN Idle
                                    ELSE [@ EXCEPT !.pc = "normCommit",
                                                   !.items = Sorted(Store)]]
    /\ UNCHANGED <<sockVars, aiVars, lyrVars, docVars, ran, fsLive, fsOrder, fsUsed, fsView>>

\* normalizeQueue: await batch.commit()
NormCommit(p) ==
    /\ task[p].pc = "normCommit"
    /\ SetStore(BatchOrders(Store, task[p].items))
    /\ task' = [task EXCEPT ![p] = Idle]
    /\ UNCHANGED <<sockVars, aiVars, lyrVars, docVars, ran, fsUsed, fsView>>

\* advanceSong: getDocs(orderBy('order'), limit(1))
AdvanceRead(p) ==
    /\ task[p].pc = "idle"
    /\ task' = [task EXCEPT ![p] = IF fsLive = {}
                                    THEN [Idle EXCEPT !.pc = "normRead", !.op = "advance"]
                                    ELSE [Idle EXCEPT !.pc = "advDelete", !.op = "advance",
                                                      !.id = Sorted(Store)[1]]]
    /\ ran' = Started("advance", Cardinality(ran))
    /\ UNCHANGED <<sockVars, aiVars, lyrVars, docVars, fsLive, fsOrder, fsUsed, fsView>>

\* advanceSong: await deleteDoc(firstSnap.docs[0].ref); then normalizeQueue
AdvanceDelete(p) ==
    /\ task[p].pc = "advDelete"
    /\ SetStore(WithoutDoc(Store, task[p].id))
    /\ task' = [task EXCEPT ![p] = [@ EXCEPT !.pc = "normRead"]]
    /\ UNCHANGED <<sockVars, aiVars, lyrVars, docVars, ran, fsUsed, fsView>>

\* the Top button of row i of queue.slice(1): getDocs and the new order
PinRead(p, i) ==
    /\ task[p].pc = "idle"
    /\ i \in 2..Len(fsView[p])
    /\ LET normalized == PinItems(Sorted(Store), fsView[p][i])
       IN  task' = [task EXCEPT ![p] = IF normalized = << >>
                                       THEN Idle
                                       ELSE [Idle EXCEPT !.pc = "pinCommit", !.op = "pin",
                                                         !.id = fsView[p][i],
                                                         !.items = normalized]]
    /\ UNCHANGED <<sockVars, aiVars, lyrVars, docVars, ran, fsLive, fsOrder, fsUsed, fsView>>

\* the Top button: await batch.commit()
PinCommit(p) ==
    /\ task[p].pc = "pinCommit"
    /\ SetStore(BatchOrders(Store, task[p].items))
    /\ task' = [task EXCEPT ![p] = Idle]
    /\ UNCHANGED <<sockVars, aiVars, lyrVars, docVars, ran, fsUsed, fsView>>

\* handleDragEnd: setQueue(newQueue) and the batch of order: idx for newQueue
DragEndFS(p, oldIndex, newIndex) ==
    /\ oldIndex \in 1..(Len(fsView[p]) - 1)
    /\ newIndex \in 1..(Len(fsView[p]) - 1)
    /\ oldIndex # newIndex
    /\ LET newQueue == arrayMove(fsView[p], oldIndex, newIndex)
       IN  /\ fsView' = [fsView EXCEPT ![p] = newQueue]
           /\ SetStore(BatchOrders(Store, newQueue))
    /\ UNCHANGED <<sockVars, aiVars, lyrVars, docVars, ran, fsUsed, task>>

\* the remove button of row i of queue.slice(1): deleteDoc(doc(queueColRef, song.uuid))
RemoveFS(p, i) ==
    /\ i \in 2..Len(fsView[p])
    /\ SetStore(WithoutDoc(Store, fsView[p][i]))
    /\ UNCHANGED <<sockVars, aiVars, lyrVars, docVars, ran, fsUsed, task, fsView>>

\* onSnapshot(qRef): setQueue(newQueue)
SnapshotFS(p) ==
    /\ fsView[p] # Sorted(Store)
    /\ fsView' = [fsView EXCEPT ![p] = Sorted(Store)]
    /\ UNCHANGED <<sockVars, aiVars, lyrVars, docVars, ran, fsLive, fsOrder, fsUsed, task>>

-----------------------------------------------------------------------------
\* The room document rooms/{roomId} of the Firestore realization.  Timestamp
\* fields (createdAt, updatedAt) are left out.

NoDoc == [k \in {} |-> 0]

DocExists(d) == DOMAIN d # {}

\* setDoc(ref, fields, { merge: true }): the fields given replace or add, the
\* others stay
Merge(d, fields) ==
    [k \in DOMAIN d \cup DOMAIN fields |->
        IF k \in DOMAIN fields THEN fields[k] ELSE d[k]]

\* updateDoc(ref, fields): as the merge, on a document that exists only
Update(d, fields) == IF DocExists(d) THEN Merge(d, fields) ELSE d

\* useState(100), useState(false), useState(null); 0 stands for null
FreshLocal == [volume |-> InitialVolume, roomMuted |-> FALSE, roomReplayCommandId |-> 0]

\* "Ensure room exists": setDoc(roomRef, { ..., volume: 100 }, { merge: true })
EnsureRoom(d) == Merge(d, [volume |-> InitialVolume])

\* useState(false), useRef(null), useRef(null); no command written yet
InitHost ==
    /\ showPlayer = [p \in Participants |-> FALSE]
    /\ playerRef = [p \in Participants |-> FALSE]
    /\ lastAppliedReplayCommandIdRef = [p \in Participants |-> 0]
    /\ seeks = [p \in Participants |-> << >>]
    /\ writtenShown = [id \in 1..MaxCommands |-> {}]

\* both participants have their Room component mounted
InitRoomDoc ==
    /\ roomDoc = EnsureRoom(NoDoc)
    /\ inRoom = Participants
    /\ roomLocal = [p \in Participants |-> FreshLocal]
    /\ nextCommand = 1
    /\ InitHost

\* nobody has opened the room yet
InitNoRoomDoc ==
    /\ roomDoc = NoDoc
    /\ inRoom = {}
    /\ roomLocal = [p \in Participants |-> FreshLocal]
    /\ nextCommand = 1
    /\ InitHost

\* the Room component mounts: the useEffect on [roomId]
MountFS(p) ==
    /\ p \notin inRoom
    /\ inRoom' = inRoom \cup {p}
    /\ roomDoc' = EnsureRoom(roomDoc)
    /\ roomLocal' = [roomLocal EXCEPT ![p] = FreshLocal]
    /\ fsView' = [fsView EXCEPT ![p] = << >>]
    /\ showPlayer' = [showPlayer EXCEPT ![p] = FALSE]
    /\ playerRef' = [playerRef EXCEPT ![p] = FALSE]
    /\ lastAppliedReplayCommandIdRef' = [lastAppliedReplayCommandIdRef EXCEPT ![p] = 0]
    /\ UNCHANGED <<sockVars, aiVars, lyrVars, ran, fsLive, fsOrder, fsUsed, task, nextCommand,
                   seeks, writtenShown>>

\* the cleanup of that useEffect: unsubRoom(), unsubQueue()
UnmountFS(p) ==
    /\ p \in inRoom
    /\ inRoom' = inRoom \ {p}
    /\ UNCHANGED <<sockVars, aiVars, lyrVars, ran, fsLive, fsOrder, fsUsed, task, fsView,
                   roomDoc, roomLocal, nextCommand, hostVars>>

HandleVolumeChangeFS(p, newVolume) ==
    /\ p \in inRoom
    /\ roomLocal' = [roomLocal EXCEPT ![p].volume = newVolume]
    /\ roomDoc' = Update(roomDoc, [volume |-> newVolume])
    /\ UNCHANGED <<sockVars, aiVars, lyrVars, ran, fsLive, fsOrder, fsUsed, task, fsView,
                   inRoom, nextCommand, hostVars>>

\* toggleMute: sendMuted(!roomMuted)
SendMuted(p, muted) ==
    /\ p \in inRoom
    /\ muted = ~roomLocal[p].roomMuted
    /\ nextCommand <= MaxCommands
    /\ roomLocal' = [roomLocal EXCEPT ![p].roomMuted = muted]
    /\ roomDoc' = Merge(roomDoc, [muted |-> muted, muteCommandId |-> nextCommand])
    /\ nextCommand' = nextCommand + 1
    /\ UNCHANGED <<sockVars, aiVars, lyrVars, ran, fsLive, fsOrder, fsUsed, task, fsView, inRoom,
                   hostVars>>

SendReplay(p) ==
    /\ p \in inRoom
    /\ nextCommand <= MaxCommands
    /\ roomDoc' = Merge(roomDoc, [replayCommandId |-> nextCommand])
    /\ nextCommand' = nextCommand + 1
    /\ writtenShown' = [writtenShown EXCEPT
                            ![nextCommand] = {x \in inRoom : showPlayer[x]}]
    /\ UNCHANGED <<sockVars, aiVars, lyrVars, ran, fsLive, fsOrder, fsUsed, task, fsView,
                   inRoom, roomLocal, showPlayer, playerRef, lastAppliedReplayCommandIdRef,
                   seeks>>

\* what onSnapshot(roomRef, ...) sets from the document's data
LocalAfter(local, data) ==
    [volume |-> IF "volume" \in DOMAIN data THEN data.volume ELSE local.volume,
     roomMuted |-> IF "muted" \in DOMAIN data THEN data.muted ELSE FALSE,
     roomReplayCommandId |-> IF "replayCommandId" \in DOMAIN data
                             THEN data.replayCommandId
                             ELSE local.roomReplayCommandId]

\* "Apply replay commands on the host player": whether the effect, run with
\* these values, gets past its four early returns
ReplayApplies(show, player, commandId, lastApplied) ==
    show /\ player /\ commandId # 0 /\ commandId # lastApplied

\* the run of that effect for p after a render with the values show and
\* commandId: the ref is set and the player rewound, or nothing is done
ReplayEffect(p, show, commandId) ==
    IF ReplayApplies(show, playerRef[p], commandId, lastAppliedReplayCommandIdRef[p])
    THEN /\ lastAppliedReplayCommandIdRef' =
                [lastAppliedReplayCommandIdRef EXCEPT ![p] = commandId]
         /\ seeks' = [seeks EXCEPT ![p] = Append(@, commandId)]
    ELSE UNCHANGED <<lastAppliedReplayCommandIdRef, seeks>>

\* the onSnapshot callback of roomRef, and the effect on
\* [showPlayer, roomReplayCommandId] when the command id it set is another one
RoomSnapshotFS(p) ==
    /\ p \in inRoom
    /\ DocExists(roomDoc)
    /\ roomLocal[p] # LocalAfter(roomLocal[p], roomDoc)
    /\ roomLocal' = [roomLocal EXCEPT ![p] = LocalAfter(roomLocal[p], roomDoc)]
    /\ IF roomLocal'[p].roomReplayCommandId # roomLocal[p].roomReplayCommandId
       THEN ReplayEffect(p, showPlayer[p], roomLocal'[p].roomReplayCommandId)
       ELSE UNCHANGED <<lastAppliedReplayCommandIdRef, seeks>>
    /\ UNCHANGED <<sockVars, aiVars, lyrVars, ran, fsLive, fsOrder, fsUsed, task, fsView,
                   roomDoc, inRoom, nextCommand, showPlayer, playerRef, writtenShown>>

\* the host-mode checkbox: setShowPlayer(e.target.checked), then the effect
\* on [showPlayer, roomReplayCommandId]
SetShowPlayer(p, checked) ==
    /\ p \in inRoom
    /\ checked # showPlayer[p]
    /\ showPlayer' = [showPlayer EXCEPT ![p] = checked]
    /\ ReplayEffect(p, checked, roomLocal[p].roomReplayCommandId)
    /\ UNCHANGED <<sockVars, aiVars, lyrVars, ran, fsLive, fsOrder, fsUsed, task, fsView,
                   roomDoc, inRoom, roomLocal, nextCommand, playerRef, writtenShown>>

\* onPlayerReady of the YouTube element, rendered while showPlayer is on and
\* the queue has a current video: playerRef.current = event.target
OnPlayerReady(p) ==
    /\ p \in inRoom
    /\ showPlayer[p]
    /\ fsView[p] # << >>
    /\ ~playerRef[p]
    /\ playerRef' = [playerRef EXCEPT ![p] = TRUE]
    /\ UNCHANGED <<sockVars, aiVars, lyrVars, ran, fsLive, fsOrder, fsUsed, task, fsView,
                   roomDoc, inRoom, roomLocal, nextCommand, showPlayer,
                   lastAppliedReplayCommandIdRef, seeks, writtenShown>>

NextRoomDoc ==
    \E p \in Participants :
        \/ MountFS(p)
        \/ UnmountFS(p)
        \/ \E newVolume \in Volumes \cup {InitialVolume} : HandleVolumeChangeFS(p, newVolume)
        \/ \E muted \in BOOLEAN : SendMuted(p, muted)
        \/ SendReplay(p)
        \/ RoomSnapshotFS(p)

NextFS ==
    \E p \in Participants :
        \/ \E isTop \in BOOLEAN, id \in DocIds : AddRead(p, isTop, id)
        \/ AddWrite(p)
        \/ NormRead(p)
        \/ NormCommit(p)
        \/ AdvanceRead(p)
        \/ AdvanceDelete(p)
        \/ \E i \in 2..MaxDocs : PinRead(p, i)
        \/ PinCommit(p)
        \/ \E oldIndex, newIndex \in 1..MaxDocs : DragEndFS(p, oldIndex, newIndex)
        \/ \E i \in 2..MaxDocs : RemoveFS(p, i)
        \/ SnapshotFS(p)

----------------------------------------------------------------------------
\* POST /api/ai/parse-song of the server: a payload is a set of parameter
\* names; every await of the handler separates two steps.

Requests == {"q1", "q2"}

MaxTokensEnv == {0, 256}

\* the parameters buildPayload always sets
BaseParams == {"model", "messages", "reasoning", "temperature", "top_p",
               "presence_penalty", "frequency_penalty"}

\* the names the upstream may give in error.param of a 400 answer
RejectedParams == {"reasoning", "response_format", "max_tokens", "temperature"}

\* what a request body gives after clipText: a title or author, or neither
Bodies == {"title", ""}

\* the outcomes of a call of the upstream: status, error.param ("" when there
\* is none), the trackName found in the text ("" when there is none), and
\* whether the call failed without an answer (the promise rejects)
Answers ==
    {[status |-> 200, param |-> "", text |-> "", failed |-> FALSE],
     [status |-> 200, param |-> "", text |-> "track", failed |-> FALSE],
     [status |-> 429, param |-> "", text |-> "", failed |-> FALSE],
     [status |-> 400, param |-> "", text |-> "", failed |-> FALSE],
     [status |-> 0, param |-> "", text |-> "", failed |-> TRUE]}
        \cup {[status |-> 400, param |-> name, text |-> "", failed |-> FALSE] :
                  name \in RejectedParams}

\* mutant: every answer of the upstream passed on as a success
Responded_AlwaysOk(out) == [res |-> 200, trackName |-> out.text]

\* the response of the endpoint to the last answer of the upstream: 502 from
\* the catch, 429 or 502 for a status outside 2xx, 422 without a name, else 200
Responded(out) ==
    IF out.failed THEN [res |-> 502, trackName |-> ""]
    ELSE IF out.status < 200 \/ out.status >= 300
         THEN [res |-> IF out.status = 429 THEN 429 ELSE 502, trackName |-> ""]
    ELSE IF out.text = "" THEN [res |-> 422, trackName |-> ""]
    ELSE [res |-> 200, trackName |-> out.text]

\* the request of q after its response to the answer out has been sent
Finished(q, out) ==
    [aiReq[q] EXCEPT !.pc = "idle", !.status = out.status, !.failed = out.failed,
                     !.res = Responded(out).res, !.trackName = Responded(out).trackName]

\* the request of q answered by an early return, before any upstream call
Refused(q, res) ==
    [pc |-> "idle", payload |-> {}, attempt |-> 0, calls |-> 0, status |-> 0,
     failed |-> FALSE, res |-> res, trackName |-> ""]

\* buildPayload({ short: false, withResponseFormat: true })
buildPayload(unsupported, withResponseFormat) ==
    LET payload ==
            BaseParams
                \cup (IF maxTokens # 0 /\ "max_tokens" \notin unsupported
                      THEN {"max_tokens"} ELSE {})
                \cup (IF maxTokens # 0 /\ "max_completion_tokens" \notin unsupported
                      THEN {"max_completion_tokens"} ELSE {})
                \cup (IF withResponseFormat /\ "response_format" \notin unsupported
                      THEN {"response_format"} ELSE {})
    IN  payload \ (unsupported \cap {"reasoning", "max_tokens", "max_completion_tokens"})

getUnknownParamName(out) == out.param

stripParam(payload, paramName) ==
    IF paramName = "" THEN payload ELSE payload \ {paramName}

NoRequest == [pc |-> "idle", payload |-> {}, attempt |-> 0, calls |-> 0, status |-> 0,
              failed |-> FALSE, res |-> 0, trackName |-> ""]

\* the server process has started, APIPLUS_MAX_TOKENS is not set
InitAI ==
    /\ AI_UNSUPPORTED_PARAMS = {}
    /\ maxTokens = 0
    /\ aiReq = [q \in Requests |-> NoRequest]
    /\ apiKey = TRUE

\* the server process has started, with or without APIPLUS_MAX_TOKENS
InitAIEnv ==
    /\ AI_UNSUPPORTED_PARAMS = {}
    /\ maxTokens \in MaxTokensEnv
    /\ aiReq = [q \in Requests |-> NoRequest]
    /\ apiKey \in BOOLEAN

\* the handler up to its first await: the checks of the key and of the body,
\* buildPayload, then callAi of attempt 0
StartRequest(q) ==
    /\ aiReq[q].pc = "idle"
    /\ \E body \in Bodies :
           aiReq' = [aiReq EXCEPT ![q] =
                        IF ~apiKey THEN Refused(q, 500)
                        ELSE IF body = "" THEN Refused(q, 400)
                        ELSE [pc |-> "loop",
                              payload |-> buildPayload(AI_UNSUPPORTED_PARAMS, TRUE),
                              attempt |-> 0, calls |-> 1, status |-> 0,
                              failed |-> FALSE, res |-> 0, trackName |-> ""]]
    /\ UNCHANGED <<sockVars, fsVars, lyrVars, AI_UNSUPPORTED_PARAMS, maxTokens, apiKey>>

\* callAiOnceWithOptionalRetry: the answer to a callAi of the loop arrives
AnswerInLoop(q, out) ==
    /\ aiReq[q].pc = "loop"
    /\ IF ~out.failed /\ out.status = 400 /\ getUnknownParamName(out) # ""
       THEN /\ AI_UNSUPPORTED_PARAMS' = AI_UNSUPPORTED_PARAMS \cup {getUnknownParamName(out)}
            /\ aiReq' = [aiReq EXCEPT ![q] =
                             [pc |-> IF aiReq[q].attempt + 1 < 2 THEN "loop" ELSE "afterLoop",
                              payload |-> stripParam(aiReq[q].payload, getUnknownParamName(out)),
                              attempt |-> aiReq[q].attempt + 1,
                              calls |-> aiReq[q].calls + 1,
                              status |-> out.status,
                              failed |-> FALSE, res |-> 0, trackName |-> ""]]
       ELSE /\ aiReq' = [aiReq EXCEPT ![q] = Finished(q, out)]
            /\ UNCHANGED AI_UNSUPPORTED_PARAMS
    /\ UNCHANGED <<sockVars, fsVars, lyrVars, maxTokens, apiKey>>

\* the answer to the callAi behind the loop arrives: returned as it is
AnswerAfterLoop(q, out) ==
    /\ aiReq[q].pc = "afterLoop"
    /\ aiReq' = [aiReq EXCEPT ![q] = Finished(q, out)]
    /\ UNCHANGED <<sockVars, fsVars, lyrVars, AI_UNSUPPORTED_PARAMS, maxTokens, apiKey>>

\* The Netlify function ai-parse-song: the same endpoint without the set of
\* unsupported names; its payload always holds response_format.
NetlifyPayload ==
    BaseParams \cup {"response_format"}
        \cup (IF maxTokens # 0 THEN {"max_tokens", "max_completion_tokens"} ELSE {})

\* exports.handler up to its first await: the checks, buildPayload, callApiplus
NetlifyStart(q) ==
    /\ aiReq[q].pc = "idle"
    /\ \E body \in Bodies :
           aiReq' = [aiReq EXCEPT ![q] =
                        IF ~apiKey THEN Refused(q, 500)
                        ELSE IF body = "" THEN Refused(q, 400)
                        ELSE [pc |-> "netlify", payload |-> NetlifyPayload,
                              attempt |-> 0, calls |-> 1, status |-> 0,
                              failed |-> FALSE, res |-> 0, trackName |-> ""]]
    /\ UNCHANGED <<sockVars, fsVars, lyrVars, AI_UNSUPPORTED_PARAMS, maxTokens, apiKey>>

\* the answer to a callApiplus arrives: one retry on an unknown parameter
NetlifyAnswer(q, out) ==
    /\ aiReq[q].pc = "netlify"
    /\ aiReq' = [aiReq EXCEPT ![q] =
                     IF /\ aiReq[q].attempt = 0
                        /\ ~out.failed
                        /\ out.status = 400
                        /\ getUnknownParamName(out) # ""
                     THEN [aiReq[q] EXCEPT
                               !.payload = stripParam(@, getUnknownParamName(out)),
                               !.attempt = 1, !.calls = @ + 1, !.status = out.status]
                     ELSE Finished(q, out)]
    /\ UNCHANGED <<sockVars, fsVars, lyrVars, AI_UNSUPPORTED_PARAMS, maxTokens, apiKey>>

NextNetlify ==
    \E q \in Requests :
        \/ NetlifyStart(q)
        \/ \E out \in Answers : NetlifyAnswer(q, out)

NextAI ==
    \E q \in Requests :
        \/ StartRequest(q)
        \/ \E out \in Answers : AnswerInLoop(q, out)
        \/ \E out \in Answers : AnswerAfterLoop(q, out)

----------------------------------------------------------------------------
\* The lyrics panel of the Room component (Firestore realisation).

MaxList == 3

\* string values of a lyrics field, as sequences of characters
Strings == {<< >>, <<" ">>, <<"a">>, <<" ", "a", " ">>}

\* null, and a value that is not a string
Null == [null |-> TRUE]

\* the values of a syncedLyrics or plainLyrics field
LyricValues == {[string |-> s] : s \in Strings} \cup {Null}

\* the records of an LRCLIB search result
LrclibRecords == [syncedLyrics : LyricValues, plainLyrics : LyricValues]

\* what lrclibSearch hands on as `list`: an array of records, or no array
Lists ==
    {[array |-> l] : l \in UNION {[1..n -> LrclibRecords] : n \in 0..MaxList}} \cup {Null}

\* typeof v === 'string'
IsString(v) == "string" \in DOMAIN v

\* String.prototype.trim: white space removed from both ends
RECURSIVE Trim(_)
Trim(s) ==
    IF s = << >> THEN s
    ELSE IF Head(s) = " " THEN Trim(Tail(s))
    ELSE IF s[Len(s)] = " " THEN Trim(SubSeq(s, 1, Len(s) - 1))
    ELSE s

\* typeof v === 'string' && v.trim()
HasText(v) == IsString(v) /\ Trim(v.string) # << >>

\* list.find((it) => typeof it?.[field] === 'string' && it[field].trim()): the
\* first element whose field has text, or null
FindWithText(l, field) ==
    IF \E i \in 1..Len(l) : HasText(l[i][field])
    THEN l[CHOOSE i \in 1..Len(l) :
               HasText(l[i][field]) /\ \A j \in 1..(i - 1) : ~HasText(l[j][field])]
    ELSE Null

\* mutant: the first record with plain lyrics preferred
pickBestLrclibRecord_PlainFirst(list) ==
    IF list = Null \/ Len(list.array) = 0 THEN Null
    ELSE IF FindWithText(list.array, "plainLyrics") # Null
         THEN FindWithText(list.array, "plainLyrics")
    ELSE FindWithText(list.array, "syncedLyrics")

pickBestLrclibRecord(list) ==
    IF list = Null \/ Len(list.array) = 0 THEN Null
    ELSE IF FindWithText(list.array, "syncedLyrics") # Null
         THEN FindWithText(list.array, "syncedLyrics")
    ELSE IF FindWithText(list.array, "plainLyrics") # Null
         THEN FindWithText(list.array, "plainLyrics")
    ELSE Null

\* no search has returned yet
NotPicked == [pending |-> TRUE]

\* the video ids the panel is shown for, and "" for no current video
LyricVideos == {"a", "b"}

\* an entry of lyricsAiParseCacheRef: none, one without a track name, one
\* with a track name
AiParsed == {"none", "empty", "track"}

\* the ways aiParseSongForLyrics ends: a track name, no track name, a throw
AiOutcomes == {"track", "empty", "throw"}

\* the ways lrclibSearch ends: a list, or a throw
SearchOutcomes ==
    {[array |-> << >>],
     [array |-> <<[syncedLyrics |-> Null, plainLyrics |-> [string |-> <<"a">>]]>>],
     [array |-> <<[syncedLyrics |-> [string |-> <<" ">>], plainLyrics |-> Null],
                  [syncedLyrics |-> [string |-> <<"a">>], plainLyrics |-> Null]>>],
     [throw |-> TRUE]}

\* the calls of loadLyricsForCurrent that can wait at the same time
LoadSlots == {1, 2}

NoLoad == [pc |-> "idle", key |-> ""]

PanelInit ==
    /\ currentVideo = ""
    /\ lyricsLoading = FALSE
    /\ lyricsOverrideTrackName = ""
    /\ lyricsCache = {}
    /\ aiParseCache = [v \in LyricVideos |-> "none"]
    /\ lyricsTask = [c \in LoadSlots |-> NoLoad]

InitLyrics ==
    /\ lyricsList = Null
    /\ lyricsBest = NotPicked
    /\ PanelInit

\* best = pickBestLrclibRecord(list)
PickBest ==
    /\ lyricsBest = NotPicked
    /\ lyricsBest' = pickBestLrclibRecord(lyricsList)
    /\ UNCHANGED <<sockVars, fsVars, aiVars, lyricsList, lyrPanel>>

\* "If neither manual nor AI provides a track name, stop early": the cache
\* entry with the error is set and the call returns
StopEarly(c, key) ==
    /\ lyricsCache' = lyricsCache \cup {key}
    /\ lyricsTask' = [lyricsTask EXCEPT ![c] = NoLoad]

\* the call waits for lrclibSearch of its one candidate query
AwaitSearch(c, key) ==
    /\ lyricsTask' = [lyricsTask EXCEPT ![c] = [pc |-> "search", key |-> key]]
    /\ UNCHANGED lyricsCache

\* loadLyricsForCurrent({ force, overrideTrackName }) up to its first await
\* or its return, for the current video cv, as call c
loadLyricsForCurrent(c, cv, force, overrideTrackName) ==
    IF cv = "" \/ (~force /\ cv \in lyricsCache)
    THEN UNCHANGED <<lyricsLoading, lyricsCache, lyricsTask>>
    ELSE /\ lyricsLoading' = TRUE
         /\ IF overrideTrackName # ""
            THEN AwaitSearch(c, cv)
            ELSE IF aiParseCache[cv] = "none" \/ force
            THEN /\ lyricsTask' = [lyricsTask EXCEPT ![c] = [pc |-> "ai", key |-> cv]]
                 /\ UNCHANGED lyricsCache
            ELSE IF aiParseCache[cv] = "track"
            THEN AwaitSearch(c, cv)
            ELSE StopEarly(c, cv)

\* useEffect on currentVideo?.id: the playing song changes, the manual name
\* is cleared and the lyrics are loaded without force
SongChanges(c, v) ==
    /\ lyricsTask[c] = NoLoad
    /\ v # currentVideo
    /\ currentVideo' = v
    /\ lyricsOverrideTrackName' = ""
    /\ loadLyricsForCurrent(c, v, FALSE, "")
    /\ UNCHANGED <<sockVars, fsVars, aiVars, lyricsList, lyricsBest, aiParseCache>>

\* handleManualLyricsSearch, from a button that is disabled while loading
ManualLyricsSearch(c) ==
    /\ lyricsTask[c] = NoLoad
    /\ currentVideo # "" /\ ~lyricsLoading
    /\ lyricsOverrideTrackName' = "q"
    /\ loadLyricsForCurrent(c, currentVideo, TRUE, "q")
    /\ UNCHANGED <<sockVars, fsVars, aiVars, lyricsList, lyricsBest, aiParseCache, currentVideo>>

\* clearManualLyricsSearch, from a button that is disabled while loading
ClearManualLyricsSearch(c) ==
    /\ lyricsTask[c] = NoLoad
    /\ currentVideo # "" /\ ~lyricsLoading /\ lyricsOverrideTrackName # ""
    /\ lyricsOverrideTrackName' = ""
    /\ loadLyricsForCurrent(c, currentVideo, TRUE, "")
    /\ UNCHANGED <<sockVars, fsVars, aiVars, lyricsList, lyricsBest, aiParseCache, currentVideo>>

\* the refresh button of the lyrics modal, disabled while loading
RefreshLyrics(c) ==
    /\ lyricsTask[c] = NoLoad
    /\ currentVideo # "" /\ ~lyricsLoading
    /\ loadLyricsForCurrent(c, currentVideo, TRUE, lyricsOverrideTrackName)
    /\ UNCHANGED <<sockVars, fsVars, aiVars, lyricsList, lyricsBest, aiParseCache, currentVideo,
                   lyricsOverrideTrackName>>

\* await aiParseSongForLyrics ends: the result is cached, or the catch falls
\* back on the cache; then the candidate queries and the early stop
AiParseReturns(c, out) ==
    /\ lyricsTask[c].pc = "ai"
    /\ aiParseCache' = IF out = "throw" THEN aiParseCache
                       ELSE [aiParseCache EXCEPT ![lyricsTask[c].key] = out]
    /\ IF aiParseCache'[lyricsTask[c].key] = "track"
       THEN AwaitSearch(c, lyricsTask[c].key)
       ELSE StopEarly(c, lyricsTask[c].key)
    /\ UNCHANGED <<sockVars, fsVars, aiVars, lyricsList, lyricsBest, currentVideo, lyricsLoading,
                   lyricsOverrideTrackName>>

\* await lrclibSearch ends inside the try: the record is picked and cached,
\* or the catch caches the error; finally setLyricsLoading(false)
SearchReturns(c, result) ==
    /\ lyricsTask[c].pc = "search"
    /\ IF "throw" \in DOMAIN result
       THEN UNCHANGED <<lyricsList, lyricsBest>>
       ELSE /\ lyricsList' = result
            /\ lyricsBest' = pickBestLrclibRecord(result)
    /\ lyricsCache' = lyricsCache \cup {lyricsTask[c].key}
    /\ lyricsLoading' = FALSE
    /\ lyricsTask' = [lyricsTask EXCEPT ![c] = NoLoad]
    /\ UNCHANGED <<sockVars, fsVars, aiVars, currentVideo, lyricsOverrideTrackName, aiParseCache>>

NextLyrics ==
    \E c \in LoadSlots :
        \/ \E v \in LyricVideos \cup {""} : SongChanges(c, v)
        \/ ManualLyricsSearch(c)
        \/ ClearManualLyricsSearch(c)
        \/ RefreshLyrics(c)
        \/ \E out \in AiOutcomes : AiParseReturns(c, out)
        \/ \E result \in SearchOutcomes : SearchReturns(c, result)

----------------------------------------------------------------------------
\* Socket handlers: what each does to the server's state and to the inboxes.

\* let rooms = loadRooms() on a first start (no rooms.json: {}), no socket
\* connected yet
InitSock ==
    /\ rooms = << >>
    /\ disk = << >>
    /\ sockRoom = [s \in Sockets |-> NoRoomId]
    /\ joined = [s \in Sockets |-> {}]
    /\ inbox = [s \in Sockets |-> << >>]
    /\ clientQueue = [s \in Sockets |-> << >>]
    /\ clientVolume = [s \in Sockets |-> InitialVolume]
    /\ nextUuid = 1
    /\ writable = TRUE
    /\ last = [op |-> "init", sock |-> "", uuid |-> 0, isTop |-> FALSE,
               newQueue |-> << >>, had |-> FALSE, len |-> 0, idx |-> -1, committed |-> FALSE,
               to |-> {}]

Init == InitSock /\ InitFS /\ InitRoomDoc /\ InitAI /\ InitLyrics /\ ran = NoHistory

\* mutant: the queue stored and saved, the emit left out
Commit_SaveOnly(roomId, queue) ==
    /\ rooms' = [rooms EXCEPT ![roomId] = queue]
    /\ SaveRooms(rooms')
    /\ UNCHANGED inbox

\* mutant: the command undone and nothing sent when the write fails
Commit_UndoOnFailure(roomId, queue) ==
    IF writable
    THEN /\ rooms' = [rooms EXCEPT ![roomId] = queue]
         /\ disk' = rooms'
         /\ Broadcast(roomId, queue)
    ELSE UNCHANGED <<rooms, disk, inbox>>

Commit(roomId, queue) ==
    /\ rooms' = [rooms EXCEPT ![roomId] = queue]
    /\ SaveRooms(rooms')
    /\ Broadcast(roomId, queue)

\* mutant: an early return that still writes the file and answers the sender
NoEffect_SaveAndEmit ==
    /\ UNCHANGED rooms
    /\ disk' = rooms
    /\ inbox' = [s \in Sockets |-> Push(inbox[s], QueueUpdated(NoRoomId, << >>))]

NoEffect == UNCHANGED <<rooms, disk, inbox>>

\* mutant: a fresh empty array sent in place of the room's queue
JoinSnapshot_Empty(s, roomId) ==
    inbox' = [inbox EXCEPT ![s] = Push(@, QueueUpdated(roomId, << >>))]

\* socket.emit('queueUpdated', rooms[roomId])
JoinSnapshot(s, roomId) ==
    inbox' = [inbox EXCEPT ![s] = Push(@, QueueUpdated(roomId, rooms'[roomId]))]

\* mutant: rooms[roomId] = [] on every joinRoom
JoinRoom_AlwaysInit(s, roomId) ==
    /\ joined' = [joined EXCEPT ![s] = @ \cup {roomId}]
    /\ sockRoom' = [sockRoom EXCEPT ![s] = roomId]
    /\ rooms' = [r \in DOMAIN rooms \cup {roomId} |->
                    IF r = roomId THEN << >> ELSE rooms[r]]
    /\ SaveRooms(rooms')
    /\ JoinSnapshot(s, roomId)
    /\ last' = [op |-> "joinRoom", sock |-> s, uuid |-> 0, isTop |-> FALSE,
                newQueue |-> << >>,
                had |-> roomId \in DOMAIN rooms,
                len |-> IF roomId \in DOMAIN rooms THEN Len(rooms[roomId]) ELSE 0,
                idx |-> -1,
                committed |-> TRUE,
                to |-> {s}]
    /\ UNCHANGED <<nextUuid, writable>>

JoinRoom(s, roomId) ==
    /\ joined' = [joined EXCEPT ![s] = @ \cup {roomId}]
    /\ sockRoom' = [sockRoom EXCEPT ![s] = roomId]
    /\ IF roomId \notin DOMAIN rooms
       THEN /\ rooms' = [r \in DOMAIN rooms \cup {roomId} |->
                            IF r = roomId THEN << >> ELSE rooms[r]]
            /\ SaveRooms(rooms')
       ELSE UNCHANGED <<rooms, disk>>
    /\ JoinSnapshot(s, roomId)
    /\ last' = [op |-> "joinRoom", sock |-> s, uuid |-> 0, isTop |-> FALSE,
                newQueue |-> << >>,
                had |-> roomId \in DOMAIN rooms,
                len |-> IF roomId \in DOMAIN rooms THEN Len(rooms[roomId]) ELSE 0,
                idx |-> -1,
                committed |-> roomId \notin DOMAIN rooms,
                to |-> {s}]
    /\ UNCHANGED <<nextUuid, writable>>

AddSong(s, song) ==
    /\ last' = Event("addSong", s, 0, song.isTop, << >>, HasRoom(s))
    /\ UNCHANGED <<sockRoom, joined, writable>>
    /\ IF ~HasRoom(s)
       THEN NoEffect /\ UNCHANGED nextUuid
       ELSE /\ nextUuid <= MaxSongs
            /\ nextUuid' = nextUuid + 1
            /\ Commit(sockRoom[s],
                      AddSongQueue(rooms[sockRoom[s]], QueueItem(song, nextUuid), song.isTop))

PinSong(s, uuid) ==
    /\ last' = Event("pinSong", s, uuid, FALSE, << >>,
                      HasRoom(s) /\ PinSongMoves(rooms[sockRoom[s]], uuid))
    /\ UNCHANGED <<sockRoom, joined, nextUuid, writable>>
    /\ IF HasRoom(s) /\ PinSongMoves(rooms[sockRoom[s]], uuid)
       THEN Commit(sockRoom[s], PinSongQueue(rooms[sockRoom[s]], uuid))
       ELSE NoEffect

ReorderQueue(s, newQueue) ==
    /\ last' = Event("reorderQueue", s, 0, FALSE, newQueue,
                      HasRoom(s) /\ ReorderAccepts(rooms[sockRoom[s]], newQueue))
    /\ UNCHANGED <<sockRoom, joined, nextUuid, writable>>
    /\ IF HasRoom(s) /\ ReorderAccepts(rooms[sockRoom[s]], newQueue)
       THEN Commit(sockRoom[s], newQueue)
       ELSE NoEffect

RemoveSong(s, uuid) ==
    /\ last' = Event("removeSong", s, uuid, FALSE, << >>, HasRoom(s))
    /\ UNCHANGED <<sockRoom, joined, nextUuid, writable>>
    /\ IF HasRoom(s)
       THEN Commit(sockRoom[s], RemoveSongQueue(rooms[sockRoom[s]], uuid))
       ELSE NoEffect

SongEnded(s) ==
    /\ last' = Event("songEnded", s, 0, FALSE, << >>,
                      HasRoom(s) /\ Len(rooms[sockRoom[s]]) > 0)
    /\ UNCHANGED <<sockRoom, joined, nextUuid, writable>>
    /\ IF HasRoom(s) /\ Len(rooms[sockRoom[s]]) > 0
       THEN Commit(sockRoom[s], ShiftQueue(rooms[sockRoom[s]]))
       ELSE NoEffect

SkipSong(s) ==
    /\ last' = Event("skipSong", s, 0, FALSE, << >>,
                      HasRoom(s) /\ Len(rooms[sockRoom[s]]) > 0)
    /\ UNCHANGED <<sockRoom, joined, nextUuid, writable>>
    /\ IF HasRoom(s) /\ Len(rooms[sockRoom[s]]) > 0
       THEN Commit(sockRoom[s], ShiftQueue(rooms[sockRoom[s]]))
       ELSE NoEffect

\* a 'requestQueue' event: the server registers no listener for it, so the
\* event is dropped
RequestQueue(s) ==
    /\ last' = Event("requestQueue", s, 0, FALSE, << >>, FALSE)
    /\ UNCHANGED <<sockRoom, joined, nextUuid, writable>>
    /\ NoEffect

\* mutant: the room's queue sent along with the volume
VolumeChange_WithQueue(s, volume) ==
    /\ last' = Event("volumeChange", s, 0, FALSE, << >>, sockRoom[s] # NoRoomId)
    /\ UNCHANGED <<rooms, disk, sockRoom, joined, nextUuid, writable>>
    /\ IF sockRoom[s] # NoRoomId
       THEN inbox' = [x \in Sockets |->
                         IF sockRoom[s] \in joined[x]
                         THEN Push(Push(inbox[x], VolumeChanged(sockRoom[s], volume)),
                                   QueueUpdated(sockRoom[s], rooms[sockRoom[s]]))
                         ELSE inbox[x]]
       ELSE UNCHANGED inbox

\* socket.on('volumeChange'): relayed to the room of the socket, nothing stored
VolumeChange(s, volume) ==
    /\ last' = Event("volumeChange", s, 0, FALSE, << >>, sockRoom[s] # NoRoomId)
    /\ UNCHANGED <<rooms, disk, sockRoom, joined, nextUuid, writable>>
    /\ IF sockRoom[s] # NoRoomId
       THEN inbox' = [x \in Sockets |->
                         IF sockRoom[s] \in joined[x]
                         THEN Push(inbox[x], VolumeChanged(sockRoom[s], volume))
                         ELSE inbox[x]]
       ELSE UNCHANGED inbox

----------------------------------------------------------------------------
\* Client components: what a participant can do from the view it holds.

\* The clients' queues after a step that leaves them `local`: a socket that
\* was sent a message while its inbox was full has handled the oldest one.
ClientQueues(local) ==
    clientQueue' = [x \in Sockets |->
                       IF x \in last'.to /\ Len(inbox[x]) >= MaxInbox
                       THEN QueueAfter(Head(inbox[x]), local[x])
                       ELSE local[x]]

\* the same for the clients' volumes
ClientVolumes(local) ==
    clientVolume' = [x \in Sockets |->
                        IF x \in last'.to /\ Len(inbox[x]) >= MaxInbox
                        THEN VolumeAfter(Head(inbox[x]), local[x])
                        ELSE local[x]]

ClientState(local) == ClientQueues(local) /\ ClientVolumes(clientVolume)

\* useEffect of Room: socket.emit('joinRoom', roomId)
ClientJoin(s, roomId) ==
    /\ JoinRoom(s, roomId)
    /\ ClientState(clientQueue)
    /\ UNCHANGED <<fsVars, aiVars, lyrVars>>

\* addToQueue(video, isTop)
ClientAddToQueue(s, video, isTop) ==
    /\ AddSong(s, [id |-> video, isTop |-> isTop])
    /\ ClientState(clientQueue)
    /\ UNCHANGED <<fsVars, aiVars, lyrVars>>

\* useEffect of Remote and of Player: socket.emit('requestQueue')
ClientRequestQueue(s) ==
    /\ RequestQueue(s)
    /\ ClientState(clientQueue)
    /\ UNCHANGED <<fsVars, aiVars, lyrVars>>

\* the Top button of a row of queue.slice(1)
ClientPin(s, i) ==
    /\ i \in 2..Len(clientQueue[s])
    /\ PinSong(s, clientQueue[s][i].uuid)
    /\ ClientState(clientQueue)
    /\ UNCHANGED <<fsVars, aiVars, lyrVars>>

\* the remove button of a row of queue.slice(1)
ClientRemove(s, i) ==
    /\ i \in 2..Len(clientQueue[s])
    /\ RemoveSong(s, clientQueue[s][i].uuid)
    /\ ClientState(clientQueue)
    /\ UNCHANGED <<fsVars, aiVars, lyrVars>>

\* handleDragEnd: a row of queue.slice(1) dropped on another one
ClientDragEnd(s, oldIndex, newIndex) ==
    /\ oldIndex \in 1..(Len(clientQueue[s]) - 1)
    /\ newIndex \in 1..(Len(clientQueue[s]) - 1)
    /\ oldIndex # newIndex
    /\ LET newQueue == arrayMove(clientQueue[s], oldIndex, newIndex)
       IN  /\ ReorderQueue(s, newQueue)
           /\ ClientState([clientQueue EXCEPT ![s] = newQueue])
    /\ UNCHANGED <<fsVars, aiVars, lyrVars>>

\* a reorderQueue event carrying an empty array
ClientReorderEmpty(s) ==
    /\ ReorderQueue(s, << >>)
    /\ ClientState(clientQueue)
    /\ UNCHANGED <<fsVars, aiVars, lyrVars>>

\* onPlayerEnd / onPlayerError of the player shown for currentVideo
ClientPlayerEnd(s) ==
    /\ Len(clientQueue[s]) > 0
    /\ SongEnded(s)
    /\ ClientState(clientQueue)
    /\ UNCHANGED <<fsVars, aiVars, lyrVars>>

\* the Skip button
ClientSkip(s) ==
    /\ SkipSong(s)
    /\ ClientState(clientQueue)
    /\ UNCHANGED <<fsVars, aiVars, lyrVars>>

\* handleVolumeChange: setVolume(newVolume); socket.emit('volumeChange', newVolume)
ClientVolumeChange(s, newVolume) ==
    /\ VolumeChange(s, newVolume)
    /\ ClientQueues(clientQueue)
    /\ ClientVolumes([clientVolume EXCEPT ![s] = newVolume])
    /\ UNCHANGED <<fsVars, aiVars, lyrVars>>

\* socket.on('queueUpdated', newQueue => setQueue(newQueue)) and
\* socket.on('volumeChange', vol => setVolume(vol))
Deliver(s) ==
    /\ Len(inbox[s]) > 0
    /\ clientQueue' = [clientQueue EXCEPT ![s] = QueueAfter(Head(inbox[s]), @)]
    /\ clientVolume' = [clientVolume EXCEPT ![s] = VolumeAfter(Head(inbox[s]), @)]
    /\ inbox' = [inbox EXCEPT ![s] = Tail(@)]
    /\ last' = Event("queueUpdated", s, 0, FALSE, << >>, FALSE)
    /\ UNCHANGED <<rooms, disk, sockRoom, joined, nextUuid, writable>>
    /\ UNCHANGED <<fsVars, aiVars, lyrVars>>

\* handleLeave: window.location.reload(), the old connection is dropped
Reload(s) ==
    /\ sockRoom[s] # NoRoomId
    /\ sockRoom' = [sockRoom EXCEPT ![s] = NoRoomId]
    /\ joined' = [joined EXCEPT ![s] = {}]
    /\ inbox' = [inbox EXCEPT ![s] = << >>]
    /\ clientQueue' = [clientQueue EXCEPT ![s] = << >>]
    /\ clientVolume' = [clientVolume EXCEPT ![s] = InitialVolume]
    /\ last' = Event("disconnect", s, 0, FALSE, << >>, FALSE)
    /\ UNCHANGED <<rooms, disk, nextUuid, writable>>
    /\ UNCHANGED <<fsVars, aiVars, lyrVars>>

\* the file system starts or stops accepting writes of rooms.json
DiskChange ==
    /\ writable' = ~writable
    /\ last' = [op |-> "disk", sock |-> "", uuid |-> 0, isTop |-> FALSE,
                newQueue |-> << >>, had |-> FALSE, len |-> 0, idx |-> -1,
                committed |-> FALSE, to |-> {}]
    /\ UNCHANGED <<rooms, disk, sockRoom, joined, inbox, clientQueue, clientVolume, nextUuid>>
    /\ UNCHANGED <<fsVars, aiVars, lyrVars>>

\* the server process restarts: let rooms = loadRooms(); every client's socket
\* reconnects as a new socket of the server, the components stay mounted
Restart ==
    /\ rooms' = LoadRooms(disk)
    /\ sockRoom' = [s \in Sockets |-> NoRoomId]
    /\ joined' = [s \in Sockets |-> {}]
    /\ inbox' = [s \in Sockets |-> << >>]
    /\ last' = [op |-> "restart", sock |-> "", uuid |-> 0, isTop |-> FALSE,
                newQueue |-> << >>, had |-> FALSE, len |-> 0, idx |-> -1,
                committed |-> FALSE, to |-> {}]
    /\ UNCHANGED <<disk, clientQueue, clientVolume, nextUuid, writable>>
    /\ UNCHANGED <<fsVars, aiVars, lyrVars>>

Next ==
    \E s \in Sockets :
        \/ \E roomId \in RoomIds : ClientJoin(s, roomId)
        \/ \E video \in Videos, isTop \in BOOLEAN : ClientAddToQueue(s, video, isTop)
        \/ \E i \in 2..MaxSongs : ClientPin(s, i)
        \/ \E i \in 2..MaxSongs : ClientRemove(s, i)
        \/ \E oldIndex, newIndex \in 1..MaxSongs : ClientDragEnd(s, oldIndex, newIndex)
        \/ ClientReorderEmpty(s)
        \/ ClientPlayerEnd(s)
        \/ ClientSkip(s)
        \/ Deliver(s)
        \/ Reload(s)

Spec == Init /\ [][Next]_vars

\* Every message sent to a socket is eventually handled by its client.
FairSpec == Spec /\ \A s \in Sockets : WF_vars(Deliver(s))

\* The server with a file system that may refuse writes, and restarts.
NextDisk ==
    \/ \E s \in Sockets :
          \/ \E roomId \in RoomIds : ClientJoin(s, roomId)
          \/ \E video \in Videos, isTop \in BOOLEAN : ClientAddToQueue(s, video, isTop)
          \/ \E i \in 2..MaxSongs : ClientPin(s, i)
          \/ \E i \in 2..MaxSongs : ClientRemove(s, i)
          \/ \E oldIndex, newIndex \in 1..MaxSongs : ClientDragEnd(s, oldIndex, newIndex)
          \/ ClientPlayerEnd(s)
          \/ ClientSkip(s)
          \/ Deliver(s)
    \/ DiskChange
    \/ Restart

SpecDisk == Init /\ [][NextDisk]_vars

\* A client that emits events of its own making: a song that carries a uuid,
\* and a reorderQueue array of one or two entries of its choice.
ForgedUuid == 0

EmittedQueues ==
    LET entries == {QueueItem([id |-> v], u) : v \in Videos, u \in {ForgedUuid} \cup (1..MaxSongs)}
    IN  {<<a>> : a \in entries} \cup {<<a, b>> : a \in entries, b \in entries}

EmitAddSong(s, song) ==
    /\ AddSong(s, song)
    /\ ClientState(clientQueue)
    /\ UNCHANGED <<fsVars, aiVars, lyrVars>>

EmitReorderQueue(s, newQueue) ==
    /\ ReorderQueue(s, newQueue)
    /\ ClientState(clientQueue)
    /\ UNCHANGED <<fsVars, aiVars, lyrVars>>

NextEmit ==
    \E s \in Sockets :
        \/ \E roomId \in RoomIds : ClientJoin(s, roomId)
        \/ \E song \in [id : Videos, isTop : BOOLEAN, uuid : {ForgedUuid}] : EmitAddSong(s, song)
        \/ \E newQueue \in EmittedQueues : EmitReorderQueue(s, newQueue)
        \/ Deliver(s)

SpecEmit == Init /\ [][NextEmit]_vars

\* The parse-song endpoint alone, two HTTP clients.
InitParseSong == InitSock /\ InitFS /\ InitRoomDoc /\ InitAIEnv /\ InitLyrics /\ ran = NoHistory

SpecAI == InitParseSong /\ [][NextAI]_vars

\* Two rooms: sockets join either room, add and skip songs, move the volume
\* slider and handle their messages.
NextXY ==
    \E s \in Sockets :
        \/ \E roomId \in RoomIdsXY : ClientJoin(s, roomId)
        \/ /\ nextUuid <= MaxSongsXY
           /\ \E video \in Videos, isTop \in BOOLEAN : ClientAddToQueue(s, video, isTop)
        \/ ClientSkip(s)
        \/ \E newVolume \in Volumes : ClientVolumeChange(s, newVolume)
        \/ Deliver(s)

SpecXY == Init /\ [][NextXY]_vars

\* The Firestore realisation of one room, two participants.
SpecFS == Init /\ [][NextFS]_vars

\* addToQueue and advanceSong alone, with the operations started recorded in
\* `ran` (at most MaxOps of them).
InitRecorded == InitSock /\ InitFS /\ InitRoomDoc /\ InitAI /\ InitLyrics /\ ran = {}

NextRecorded ==
    \E p \in Participants :
        \/ /\ Cardinality(ran) < MaxOps
           /\ \E isTop \in BOOLEAN, id \in DocIds : AddRead(p, isTop, id)
        \/ AddWrite(p)
        \/ NormRead(p)
        \/ NormCommit(p)
        \/ /\ Cardinality(ran) < MaxOps
           /\ AdvanceRead(p)
        \/ AdvanceDelete(p)

SpecRecorded == InitRecorded /\ [][NextRecorded]_vars

\* the room document alone, from a room nobody has opened
InitNoRoom == InitSock /\ InitFS /\ InitNoRoomDoc /\ InitAI /\ InitLyrics /\ ran = NoHistory

SpecRoomDoc == InitNoRoom /\ [][NextRoomDoc]_vars

\* The room settings of both realisations on queues that hold entries: the
\* server has started from a rooms.json with one entry in each room, the
\* Firestore collection holds two documents, every component is mounted.
InitSettings ==
    /\ rooms = [r \in RoomIds |-> <<QueueItem([id |-> CHOOSE v \in Videos : TRUE], 1)>>]
    /\ disk = rooms
    /\ sockRoom = [s \in Sockets |-> NoRoomId]
    /\ joined = [s \in Sockets |-> {}]
    /\ inbox = [s \in Sockets |-> << >>]
    /\ clientQueue = [s \in Sockets |-> << >>]
    /\ clientVolume = [s \in Sockets |-> InitialVolume]
    /\ nextUuid = 2
    /\ writable = TRUE
    /\ last = [op |-> "init", sock |-> "", uuid |-> 0, isTop |-> FALSE,
               newQueue |-> << >>, had |-> FALSE, len |-> 0, idx |-> -1, committed |-> FALSE,
               to |-> {}]
    /\ fsLive = {1, 2}
    /\ fsOrder = [d \in DocIds |-> IF d = 2 THEN 2 ELSE 0]
    /\ fsUsed = {1, 2}
    /\ task = [p \in Participants |-> Idle]
    /\ fsView = [p \in Participants |-> <<1, 2>>]
    /\ InitRoomDoc
    /\ InitAI
    /\ InitLyrics
    /\ ran = NoHistory

NextSettings ==
    \/ \E s \in Sockets :
          \/ \E roomId \in RoomIds : ClientJoin(s, roomId)
          \/ \E newVolume \in Volumes : ClientVolumeChange(s, newVolume)
          \/ Deliver(s)
    \/ \E p \in Participants :
          \/ \E newVolume \in Volumes \cup {InitialVolume} : HandleVolumeChangeFS(p, newVolume)
          \/ \E muted \in BOOLEAN : SendMuted(p, muted)
          \/ SendReplay(p)
          \/ RoomSnapshotFS(p)

SpecSettings == InitSettings /\ [][NextSettings]_vars

\* Both hosts of the parse-song endpoint, two HTTP clients, beside a room that
\* holds a queue entry in memory, in rooms.json and in Firestore.
InitEndpoints ==
    /\ rooms = [r \in RoomIds |-> <<QueueItem([id |-> CHOOSE v \in Videos : TRUE], 1)>>]
    /\ disk = rooms
    /\ sockRoom = [s \in Sockets |-> NoRoomId]
    /\ joined = [s \in Sockets |-> {}]
    /\ inbox = [s \in Sockets |-> << >>]
    /\ clientQueue = [s \in Sockets |-> << >>]
    /\ clientVolume = [s \in Sockets |-> InitialVolume]
    /\ nextUuid = 2
    /\ writable = TRUE
    /\ last = [op |-> "init", sock |-> "", uuid |-> 0, isTop |-> FALSE,
               newQueue |-> << >>, had |-> FALSE, len |-> 0, idx |-> -1, committed |-> FALSE,
               to |-> {}]
    /\ fsLive = {1, 2}
    /\ fsOrder = [d \in DocIds |-> IF d = 2 THEN 2 ELSE 0]
    /\ fsUsed = {1, 2}
    /\ task = [p \in Participants |-> Idle]
    /\ fsView = [p \in Participants |-> <<1, 2>>]
    /\ InitRoomDoc
    /\ InitAIEnv
    /\ InitLyrics
    /\ ran = NoHistory

NextEndpoints == NextAI \/ NextNetlify

SpecEndpoints == InitEndpoints /\ [][NextEndpoints]_vars

\* pickBestLrclibRecord alone, applied to every search result of the bounds.
InitPick ==
    /\ InitSock /\ InitFS /\ InitRoomDoc /\ InitAI /\ ran = NoHistory
    /\ lyricsList \in Lists
    /\ lyricsBest = NotPicked
    /\ PanelInit

NextPick == PickBest

SpecPick == InitPick /\ [][NextPick]_vars

\* The volume of a room in both realisations: the values a socket can put in
\* a 'volumeChange' message, and the values of the range input (min 0, max 100).
EmittedVolumes == {-1, 0, 50, 100, 101}

SliderVolumes == {0, 50, 100}

EmitVolumeChange(s, volume) ==
    /\ VolumeChange(s, volume)
    /\ ClientState(clientQueue)
    /\ UNCHANGED <<fsVars, aiVars, lyrVars>>

NextVolume ==
    \/ \E s \in Sockets :
          \/ \E roomId \in RoomIds : ClientJoin(s, roomId)
          \/ \E volume \in EmittedVolumes : EmitVolumeChange(s, volume)
          \/ Deliver(s)
    \/ \E p \in Participants :
          \/ \E newVolume \in SliderVolumes : HandleVolumeChangeFS(p, newVolume)
          \/ RoomSnapshotFS(p)

SpecVolume == Init /\ [][NextVolume]_vars

\* Two sockets in a room of four entries, both showing the queue, drag rows
\* of the tail and handle their messages.
ReorderUuids == <<1, 2, 3, 4>>

InitialQueue ==
    [i \in 1..Len(ReorderUuids) |-> QueueItem([id |-> CHOOSE v \in Videos : TRUE], ReorderUuids[i])]

InitReorder ==
    /\ rooms = [r \in RoomIds |-> InitialQueue]
    /\ disk = rooms
    /\ sockRoom = [s \in Sockets |-> CHOOSE r \in RoomIds : TRUE]
    /\ joined = [s \in Sockets |-> RoomIds]
    /\ inbox = [s \in Sockets |-> << >>]
    /\ clientQueue = [s \in Sockets |-> InitialQueue]
    /\ clientVolume = [s \in Sockets |-> InitialVolume]
    /\ nextUuid = Len(ReorderUuids) + 1
    /\ writable = TRUE
    /\ last = [op |-> "init", sock |-> "", uuid |-> 0, isTop |-> FALSE,
               newQueue |-> << >>, had |-> FALSE, len |-> 0, idx |-> -1, committed |-> FALSE,
               to |-> {}]
    /\ InitFS /\ InitRoomDoc /\ InitAI /\ InitLyrics /\ ran = NoHistory

NextReorder ==
    \E s \in Sockets :
        \/ \E oldIndex, newIndex \in 1..(Len(ReorderUuids) - 1) : ClientDragEnd(s, oldIndex, newIndex)
        \/ Deliver(s)

SpecReorder == InitReorder /\ [][NextReorder]_vars

\* Remote and Player components beside the Room component: sockets join, ask
\* for the queue, add songs, report the end of a song and handle messages.
NextRemote ==
    \E s \in Sockets :
        \/ \E roomId \in RoomIds : ClientJoin(s, roomId)
        \/ ClientRequestQueue(s)
        \/ \E video \in Videos, isTop \in BOOLEAN : ClientAddToQueue(s, video, isTop)
        \/ ClientPlayerEnd(s)
        \/ Deliver(s)

SpecRemote == Init /\ [][NextRemote]_vars

\* The lyrics panel: songs change, the buttons of the modal are used, and the
\* requests to the AI endpoint and to LRCLIB end one way or another.
SpecLyrics == Init /\ [][NextLyrics]_vars

\* Every request ends: both fetches carry a timeout.
FairLyrics ==
    /\ SpecLyrics
    /\ \A c \in LoadSlots :
           /\ WF_vars(\E out \in AiOutcomes : AiParseReturns(c, out))
           /\ WF_vars(\E result \in SearchOutcomes : SearchReturns(c, result))

\* The replay command: participants of a room with a queue turn the host
\* player on and off, its player gets ready, replay commands are written and
\* the snapshots of the room document arrive.
NextReplay ==
    \E p \in Participants :
        \/ \E checked \in BOOLEAN : SetShowPlayer(p, checked)
        \/ OnPlayerReady(p)
        \/ SendReplay(p)
        \/ RoomSnapshotFS(p)

SpecReplay == InitSettings /\ [][NextReplay]_vars

----------------------------------------------------------------------------
\* Properties.  `last'` names the event a step handles; the room it acts on is
\* the room of the emitting socket.

Range(seq) == {seq[i] : i \in 1..Len(seq)}

\* the room of the socket whose event the step handles
StepRoom == sockRoom'[last'.sock]

\* the queue of room r had a head, and after the step this entry is not the head
HeadChanged(r) ==
    /\ Len(rooms[r]) > 0
    /\ (Len(rooms'[r]) = 0 \/ rooms'[r][1] # rooms[r][1])

\* seq without the entries carrying uuid, in order
Without(seq, uuid) == SelectSeq(seq, LAMBDA e : e.uuid # uuid)

\* the step puts msg at the end of the inbox of socket s, behind what was
\* pending, of which the client may have handled the oldest
Received(s, msg) ==
    \/ inbox'[s] = Append(inbox[s], msg)
    \/ /\ Len(inbox[s]) > 0
       /\ clientQueue'[s] = QueueAfter(Head(inbox[s]), clientQueue[s])
       /\ inbox'[s] = Append(Tail(inbox[s]), msg)

\* 1-based positions of uuid in seq
Positions(seq, uuid) == {i \in 1..Len(seq) : seq[i].uuid = uuid}

\* C1: among addSong, pinSong, reorderQueue, songEnded and skipSong events, a
\* step after which the former head of a non-empty queue is no longer the
\* entry at index 0 is a songEnded or skipSong step.
C1_HeadChangesOnlyByAdvance ==
    [][\A r \in DOMAIN rooms :
          (/\ last'.op \in {"addSong", "pinSong", "reorderQueue", "songEnded", "skipSong"}
           /\ HeadChanged(r))
          => last'.op \in {"songEnded", "skipSong"}]_vars

\* an accepted reorder of a queue of three or more entries has just been handled
C1_Witness ==
    /\ last.op = "reorderQueue"
    /\ last.committed
    /\ last.len >= 3
    /\ rooms[sockRoom[last.sock]] = last.newQueue

\* C2: a removeSong step never removes the entry that is at the head when the
\* request is applied.
C2_RemoveKeepsHead ==
    [][\A r \in DOMAIN rooms : last'.op = "removeSong" => ~HeadChanged(r)]_vars

\* C3: reorderQueue(newQueue) stores newQueue when the stored queue and
\* newQueue are both non-empty with the same uuid at index 0, and leaves every
\* room's queue as it was in every other case.
C3_ReorderOnlyOnHeadMatch ==
    [][last'.op = "reorderQueue" =>
          IF /\ last'.had
             /\ Len(rooms[StepRoom]) > 0
             /\ Len(last'.newQueue) > 0
             /\ rooms[StepRoom][1].uuid = last'.newQueue[1].uuid
          THEN rooms' = [rooms EXCEPT ![StepRoom] = last'.newQueue]
          ELSE rooms' = rooms]_vars

\* a proposal built from a stale view has just been rejected: both queues
\* non-empty, heads different
C3_Witness ==
    /\ last.op = "reorderQueue"
    /\ last.had
    /\ ~last.committed
    /\ Len(last.newQueue) > 0
    /\ Len(rooms[sockRoom[last.sock]]) > 0
    /\ rooms[sockRoom[last.sock]][1].uuid # last.newQueue[1].uuid

\* C4: when a reorderQueue proposal is rejected because its head differs from
\* the store's head, the step sends queueUpdated with the store's queue to the
\* proposing socket.
C4_RejectedProposalRedelivered ==
    [][(/\ last'.op = "reorderQueue"
        /\ last'.had
        /\ Len(rooms[StepRoom]) > 0
        /\ Len(last'.newQueue) > 0
        /\ rooms[StepRoom][1].uuid # last'.newQueue[1].uuid)
       => Received(last'.sock, QueueUpdated(StepRoom, rooms[StepRoom]))]_vars

\* C5: an accepted reorderQueue leaves the room with the same entries as
\* before, the new queue being a permutation of the stored one.
C5_AcceptedReorderIsPermutation ==
    [][(last'.op = "reorderQueue" /\ last'.committed) =>
          /\ Len(rooms'[StepRoom]) = Len(rooms[StepRoom])
          /\ Range(rooms'[StepRoom]) = Range(rooms[StepRoom])]_vars

\* C6: addSong with isTop on a non-empty queue puts the new entry at index 1,
\* the head and the order of the others kept; otherwise the new entry goes to
\* the end; the queue grows by exactly one entry.
C6_AddSongPlacement ==
    [][(last'.op = "addSong" /\ last'.had) =>
          LET q == rooms[StepRoom]
              q2 == rooms'[StepRoom]
              at == IF last'.isTop /\ Len(q) > 0 THEN 2 ELSE Len(q) + 1
          IN  /\ Len(q2) = Len(q) + 1
              /\ q2[at].uuid \notin Uuids(q)
              /\ \A i \in 1..Len(q) : q2[IF i < at THEN i ELSE i + 1] = q[i]]_vars

\* addSong with isTop has just been handled on a queue of two entries
C6_Witness ==
    /\ last.op = "addSong"
    /\ last.isTop
    /\ last.committed
    /\ last.len = 2
    /\ Len(rooms[sockRoom[last.sock]]) = 3

\* C7: pinSong(uuid) moves the entry to index 1, the others keeping their
\* order, exactly when it sits at index 2 or higher; otherwise (index 0 or 1,
\* or no such uuid, or no room) nothing changes and nothing is sent.
C7_PinSongSemantics ==
    [][last'.op = "pinSong" =>
          IF last'.had /\ \E i \in Positions(rooms[StepRoom], last'.uuid) : i >= 3
          THEN /\ Positions(rooms'[StepRoom], last'.uuid) = {2}
               /\ Without(rooms'[StepRoom], last'.uuid) = Without(rooms[StepRoom], last'.uuid)
          ELSE UNCHANGED <<rooms, inbox>>]_vars

\* pinSong has just moved the entry found at index 2 to index 1
C7_Witness ==
    /\ last.op = "pinSong"
    /\ last.idx = 2
    /\ last.committed
    /\ rooms[sockRoom[last.sock]][2].uuid = last.uuid

\* C8: removeSong of a uuid that is not in the queue leaves the queue as it
\* was, a second removeSong of the same uuid right after the first changes
\* nothing, and the entries other than the named one keep their order.
C8_RemoveSongIdempotent ==
    [][(last'.op = "removeSong" /\ last'.had) =>
          /\ rooms'[StepRoom] = Without(rooms[StepRoom], last'.uuid)
          /\ last'.uuid \notin Uuids(rooms[StepRoom]) => rooms' = rooms
          /\ (/\ last.op = "removeSong"
              /\ last.had
              /\ last.uuid = last'.uuid
              /\ sockRoom[last.sock] = StepRoom) => rooms' = rooms]_vars

\* removeSong of a uuid that the non-empty queue no longer holds has just been
\* handled
C8_Witness ==
    /\ last.op = "removeSong"
    /\ last.had
    /\ last.idx = -1
    /\ last.len >= 1
    /\ Len(rooms[sockRoom[last.sock]]) = last.len

\* C9: songEnded or skipSong on a non-empty queue removes exactly the entry at
\* index 0 (every other entry moves up by one); on an empty queue it changes
\* nothing, persists nothing and sends nothing.
C9_AdvancePopsHead ==
    [][(last'.op \in {"songEnded", "skipSong"} /\ last'.had) =>
          IF Len(rooms[StepRoom]) > 0
          THEN /\ Len(rooms'[StepRoom]) = Len(rooms[StepRoom]) - 1
               /\ \A i \in 1..Len(rooms'[StepRoom]) :
                      rooms'[StepRoom][i] = rooms[StepRoom][i + 1]
               /\ \A r \in DOMAIN rooms \ {StepRoom} : rooms'[r] = rooms[r]
          ELSE UNCHANGED <<rooms, disk, inbox>>]_vars

\* a second report of the same end of song has just found the queue empty
C9_Witness ==
    /\ last.op = "songEnded"
    /\ last.had
    /\ last.len = 0
    /\ ~last.committed
    /\ nextUuid > 1

\* the queue of room r that socket s holds or is about to receive
LatestView(s, r) ==
    IF Len(inbox[s]) > 0 THEN inbox[s][Len(inbox[s])].queue ELSE clientQueue[s]

QueueCommands == {"addSong", "pinSong", "reorderQueue", "removeSong", "songEnded", "skipSong"}

C12_AtMostOneRoom ==
    /\ [](\A s \in Sockets : joined[s] \subseteq {sockRoom[s]})
    /\ [][last'.op \in QueueCommands \cup {"volumeChange"} =>
             \A s \in Sockets :
                 (sockRoom'[s] # NoRoomId /\ sockRoom'[s] # StepRoom) =>
                     inbox'[s] = inbox[s]]_vars

\* every subscribed socket shows the server's queue of its room
Converged ==
    \A s \in Sockets : \A r \in joined[s] : clientQueue[s] = rooms[r]

\* C13: when from some point on no command is issued and the pending messages
\* are handled in order, then from some point on every subscribed socket
\* holds the server's queue of its room; and a socket with nothing pending
\* holds it already.
C13_EventuallyConverged ==
    /\ [](\A s \in Sockets : inbox[s] = << >> => \A r \in joined[s] : clientQueue[s] = rooms[r])
    /\ (<>[][\E s \in Sockets : Deliver(s)]_vars) => <>[]Converged

\* a client shows its own reorder of three entries, which the server has just
\* rejected because an advance was committed first; the advanced queue is
\* pending towards it
C13_Witness ==
    /\ last.op = "reorderQueue"
    /\ last.had
    /\ ~last.committed
    /\ Len(last.newQueue) = 3
    /\ clientQueue[last.sock] = last.newQueue
    /\ Len(rooms[sockRoom[last.sock]]) = 2
    /\ Range(rooms[sockRoom[last.sock]]) = Range(Tail(last.newQueue))
    /\ inbox[last.sock] = <<QueueUpdated(sockRoom[last.sock], rooms[sockRoom[last.sock]])>>

----------------------------------------------------------------------------
\* Properties of the Firestore realisation.

\* the document at the head of the queue is no longer the head after the step
HeadChangedFS ==
    /\ fsLive # {}
    /\ (fsLive' = {}
        \/ Sorted([live |-> fsLive', order |-> fsOrder'])[1] # Sorted(Store)[1])

\* C14: a step after which the former head document is no longer first by
\* order key is the delete of an advanceSong; the steps of addToQueue with
\* isTop, of the Top button, of handleDragEnd and of normalizeQueue never are.
\* (The remove button and addToQueue without isTop are not part of the claim.)
C14_HeadStaysUntilAdvance ==
    [][HeadChangedFS =>
          \/ \E p \in Participants : AdvanceDelete(p)
          \/ \E p \in Participants : \E i \in 2..MaxDocs : RemoveFS(p, i)
          \/ \E p \in Participants : task[p].op = "add" /\ AddWrite(p)]_vars

\* addToQueue(video, isTop) with document id `id`, run without interruption
RunAdd(st, id, isTop) ==
    LET written == WithDoc(st, id, AddOrder(st, isTop))
    IN  IF isTop THEN BatchOrders(written, Sorted(written)) ELSE written

\* advanceSong run without interruption
RunAdvance(st) ==
    LET deleted == IF st.live = {} THEN st ELSE WithoutDoc(st, Sorted(st)[1])
    IN  BatchOrders(deleted, Sorted(deleted))

RunOp(st, o) ==
    IF o.op = "advance" THEN RunAdvance(st) ELSE RunAdd(st, o.id, o.op = "addTop")

\* the queue orders that running the operations `ops` one after the other, in
\* some order, from the queue state st can give
RECURSIVE SerialOrders(_, _)
SerialOrders(st, ops) ==
    IF ops = {} THEN {Sorted(st)}
    ELSE UNION {SerialOrders(RunOp(st, o), ops \ {o}) : o \in ops}

\* C15: whenever no handler is running, the queue order is one that the
\* operations started so far give when run one after the other in some order.
C15_InterleavingsSerializable ==
    (\A p \in Participants : task[p].pc = "idle") =>
        Sorted(Store) \in SerialOrders([live |-> {}, order |-> [d \in DocIds |-> 0]], ran)

\* C16: from every queue state that holds a document and that the handlers
\* can leave behind (no handler running), addToQueue(video, true) run without
\* interruption leaves the head where it was, the new document at index 1
\* and the other documents in their previous order.
C16_AddTopLandsAtIndexOne ==
    (fsLive # {} /\ \A p \in Participants : task[p].pc = "idle") =>
        \A id \in DocIds \ fsUsed :
            LET before == Sorted(Store)
                after == Sorted(RunAdd(Store, id, TRUE))
            IN  /\ after[1] = before[1]
                /\ after[2] = id
                /\ SelectSeq(after, LAMBDA d : d # id) = before

\* the queue state after the step
StoreNext == [live |-> fsLive', order |-> fsOrder']

\* C17: the commit of a normalizeQueue whose read is still the queue (no
\* writer in between) leaves the same documents in the same order with the
\* order keys 0, 1, ..., n-1 (0, 2, ... in halves); a normalizeQueue that reads
\* an empty queue writes nothing.
C17_NormalizeRenumbers ==
    /\ [][\A p \in Participants :
             (NormCommit(p) /\ task[p].items = Sorted(Store)) =>
                 /\ fsLive' = fsLive
                 /\ Sorted(StoreNext) = Sorted(Store)
                 /\ \A i \in 1..Len(task[p].items) :
                        fsOrder'[task[p].items[i]] = 2 * (i - 1)]_vars
    /\ [][\A p \in Participants :
             (NormRead(p) /\ fsLive = {}) =>
                 /\ task'[p].pc = "idle"
                 /\ UNCHANGED <<fsLive, fsOrder>>]_vars

\* a normalizeQueue has read three documents whose keys are not 0, 1, 2, no
\* writer has come in between, and its batch is about to be committed
C17_Witness ==
    \E p \in Participants :
        /\ task[p].pc = "normCommit"
        /\ Len(task[p].items) = 3
        /\ task[p].items = Sorted(Store)
        /\ \E i \in 1..3 : fsOrder[task[p].items[i]] # 2 * (i - 1)

\* C18: the batch of a handleDragEnd whose local queue, or of a Top button
\* whose read, starts with a document that has since been deleted changes no
\* document and no order key.
C18_StaleHeadBatchRejected ==
    [][\A p \in Participants :
          (\/ /\ fsView[p] # << >>
              /\ fsView[p][1] \notin fsLive
              /\ \E oldIndex, newIndex \in 1..MaxDocs : DragEndFS(p, oldIndex, newIndex)
           \/ /\ PinCommit(p)
              /\ task[p].items[1] \notin fsLive)
          => UNCHANGED <<fsLive, fsOrder>>]_vars

\* a Top button has read three documents and chosen the new order, the other
\* participant's advanceSong has then deleted the head that was read, and the
\* batch is about to be committed; the participant's own queue, from which a
\* drag would be computed, still starts with the deleted head
C18_Witness ==
    \E p, q \in Participants :
        /\ task[p].pc = "pinCommit"
        /\ Len(task[p].items) = 3
        /\ task[p].items[1] \notin fsLive
        /\ Cardinality(fsLive) = 2
        /\ Len(fsView[p]) = 3
        /\ fsView[p][1] = task[p].items[1]
        /\ task[q].op = "advance"
        /\ task[q].pc = "normRead"
        /\ task[q].id = task[p].items[1]

\* C19: the first joinRoom(R) adds R with an empty queue and changes no other
\* room; a joinRoom(R) of a room that exists, by any socket, changes no queue.
C19_JoinRoomLazyIdempotent ==
    [][last'.op = "joinRoom" =>
          IF StepRoom \in DOMAIN rooms
          THEN rooms' = rooms
          ELSE /\ DOMAIN rooms' = DOMAIN rooms \cup {StepRoom}
               /\ rooms'[StepRoom] = << >>
               /\ \A r \in DOMAIN rooms : rooms'[r] = rooms[r]]_vars

\* a socket has just joined a room that held an entry, while the other room
\* holds one too
C19_Witness ==
    /\ last.op = "joinRoom"
    /\ last.had
    /\ last.len >= 1
    /\ DOMAIN rooms = RoomIdsXY
    /\ \A r \in RoomIdsXY : Len(rooms[r]) >= 1

RoomSettings == {"volume", "muted", "replayCommandId"}

\* C20: when a participant opens a room whose document exists, the document's
\* volume, muted flag and replay command id stay as they were.
C20_JoinKeepsRoomSettings ==
    [][\A p \in Participants :
          (MountFS(p) /\ DocExists(roomDoc)) =>
              \A k \in RoomSettings :
                  /\ (k \in DOMAIN roomDoc') = (k \in DOMAIN roomDoc)
                  /\ k \in DOMAIN roomDoc => roomDoc'[k] = roomDoc[k]]_vars

\* C21: a socket that joins a room right after a volume was set in that room
\* is sent that volume with the snapshot of the queue (or holds it once the
\* join's messages are counted).
C21_JoinReceivesRoomState ==
    [][(/\ last.op = "volumeChange"
        /\ last.committed
        /\ last'.op = "joinRoom"
        /\ StepRoom = sockRoom[last.sock]) =>
           LET volume == inbox[last.sock][Len(inbox[last.sock])].volume
               s == last'.sock
           IN  \/ \E i \in 1..Len(inbox'[s]) : inbox'[s][i] = VolumeChanged(StepRoom, volume)
               \/ clientVolume'[s] = volume]_vars

\* C22: a volumeChange (a step of the socket realisation) leaves every room's queue and the file as they are and
\* sends the subscribers of the sender's room one volumeChange message, nobody
\* else anything; handleVolumeChange, sendMuted and sendReplay of the Firestore
\* realisation leave the queue's documents, their order keys and the
\* participants' queues as they are.
C22_SettingsLeaveQueue ==
    /\ [][(last'.op = "volumeChange" /\ UNCHANGED <<fsVars, aiVars, lyrVars>>) =>
             /\ UNCHANGED <<rooms, disk>>
             /\ \E volume \in Volumes \cup {InitialVolume} :
                    \A x \in Sockets :
                        inbox'[x] = IF StepRoom # NoRoomId /\ StepRoom \in joined[x]
                                    THEN Push(inbox[x], VolumeChanged(StepRoom, volume))
                                    ELSE inbox[x]]_vars
    /\ [][\A p \in Participants :
             (\/ \E newVolume \in Volumes \cup {InitialVolume} : HandleVolumeChangeFS(p, newVolume)
              \/ \E muted \in BOOLEAN : SendMuted(p, muted)
              \/ SendReplay(p))
             => UNCHANGED <<fsLive, fsOrder, fsView>>]_vars

\* both sockets have been sent a volume of a room that holds an entry, and the
\* room document of a collection with documents holds a volume, a muted flag
\* and a replay command set by the participants
C22_Witness ==
    /\ last.op = "volumeChange"
    /\ last.to = Sockets
    /\ Len(rooms[sockRoom[last.sock]]) >= 1
    /\ fsLive # {}
    /\ roomDoc.volume # InitialVolume
    /\ "muted" \in DOMAIN roomDoc
    /\ "replayCommandId" \in DOMAIN roomDoc

\* C23: a room's queue goes from holding entries to empty only by songEnded or
\* skipSong, and from empty to holding entries only by addSong; removeSong,
\* reorderQueue and pinSong leave a queue that holds entries holding entries.
C23_OnlyAdvanceEmptiesQueue ==
    [][\A r \in DOMAIN rooms :
          /\ (Len(rooms[r]) > 0 /\ Len(rooms'[r]) = 0) =>
                 last'.op \in {"songEnded", "skipSong"}
          /\ (Len(rooms[r]) = 0 /\ Len(rooms'[r]) > 0) =>
                 last'.op = "addSong"]_vars

\* C24: a queue command from a socket that has joined no room, or whose room
\* has no queue, creates no room, changes no queue, writes nothing to the file
\* and sends nothing.
C24_CommandWithoutRoomHasNoEffect ==
    [][(last'.op \in QueueCommands /\ ~last'.had) =>
           UNCHANGED <<rooms, disk, inbox>>]_vars

\* a socket that reconnected after a restart and joined no room has emitted
\* pinSong for a row of the queue its component still shows, while the room
\* holds entries and the other socket is subscribed to it
C24_Witness ==
    /\ last.op = "pinSong"
    /\ ~last.had
    /\ last.uuid \in Uuids(clientQueue[last.sock])
    /\ \E r \in DOMAIN rooms :
           /\ Len(rooms[r]) >= 2
           /\ \E x \in Sockets : r \in joined[x]

C26_ServerAssignedUniqueIds ==
    \A r \in DOMAIN rooms :
        /\ \A i \in 1..Len(rooms[r]) : rooms[r][i].uuid \in 1..(nextUuid - 1)
        /\ \A i, j \in 1..Len(rooms[r]) : rooms[r][i].uuid = rooms[r][j].uuid => i = j

\* C27: after a committed mutation (room creation, add, effective pin,
\* accepted reorder, remove, effective advance) whose write succeeds the file
\* holds the rooms as they are in memory; a step that commits nothing leaves
\* both as they are; a restart with such a file restores every queue, in order.
C27_PersistedEqualsMemory ==
    /\ [][(last'.op \in QueueCommands \cup {"joinRoom"} /\ last'.committed /\ writable) =>
             disk' = rooms']_vars
    /\ [][(last'.op \in QueueCommands \cup {"joinRoom", "queueUpdated", "disk"}
             /\ ~last'.committed) =>
             UNCHANGED <<rooms, disk>>]_vars
    /\ [][(last'.op = "restart" /\ disk = rooms) => rooms' = rooms]_vars

\* the server has restarted and holds, as the file does, a room with entries
\* whose order a pin or a reorder had changed
C27_Witness ==
    /\ last.op = "restart"
    /\ disk = rooms
    /\ \E r \in DOMAIN rooms :
           /\ Len(rooms[r]) >= 2
           /\ \E i \in 1..(Len(rooms[r]) - 1) : rooms[r][i].uuid > rooms[r][i + 1].uuid

\* the queue a committing command leaves in the room, from the record of the step
Computed(queue, queueNext) ==
    CASE last'.op = "addSong" ->
             /\ Len(queueNext) = Len(queue) + 1
             /\ nextUuid \in Uuids(queueNext)
             /\ Without(queueNext, nextUuid) = queue
      [] last'.op = "pinSong" -> queueNext = PinSongQueue(queue, last'.uuid)
      [] last'.op = "reorderQueue" -> queueNext = last'.newQueue
      [] last'.op = "removeSong" -> queueNext = RemoveSongQueue(queue, last'.uuid)
      [] OTHER -> queueNext = ShiftQueue(queue)

\* C28: when the write of a committing command fails, the room holds the queue
\* the command computed, and every subscriber of the room is sent that queue.
C28_WriteFailureKeepsMutationAndBroadcast ==
    [][(last'.op \in QueueCommands /\ last'.committed /\ ~writable) =>
           /\ disk' \in {disk, Unreadable}
           /\ Computed(rooms[StepRoom], rooms'[StepRoom])
           /\ \A x \in Sockets :
                  StepRoom \in joined[x] =>
                      inbox'[x] = Push(inbox[x], QueueUpdated(StepRoom, rooms'[StepRoom]))]_vars

\* an addSong whose write failed: the room holds the new entry, the file does
\* not, and both sockets have the new queue pending
C28_Witness ==
    /\ last.op = "addSong"
    /\ last.committed
    /\ ~writable
    /\ disk # rooms
    /\ \A x \in Sockets :
           /\ inbox[x] # << >>
           /\ inbox[x][Len(inbox[x])] = QueueUpdated(sockRoom[last.sock], rooms[sockRoom[last.sock]])
    /\ Len(rooms[sockRoom[last.sock]]) >= 2

\* C29: one parse-song request calls the upstream at most twice.
C29_AtMostOneRetry ==
    \A q \in Requests : aiReq[q].calls <= 2

\* C30: a name put in the unsupported set stays in it, and the payload a
\* request starts with holds no name of the set.
C30_RejectedParamsStayOmitted ==
    /\ [][AI_UNSUPPORTED_PARAMS \subseteq AI_UNSUPPORTED_PARAMS']_vars
    /\ [][\A q \in Requests :
             StartRequest(q) => aiReq'[q].payload \cap AI_UNSUPPORTED_PARAMS = {}]_vars

\* the response the claim requires for the last answer of the upstream
RequiredStatus(r) ==
    IF r.failed THEN 502
    ELSE IF r.status = 429 THEN 429
    ELSE IF r.status \notin 200..299 THEN 502
    ELSE IF r.trackName = "" THEN 422
    ELSE 200

\* C31: the parse-song endpoint, on either host, answers 500 without the API
\* key and 400 without a title or author, both before any upstream call; after
\* an upstream call it answers 429 for an upstream 429, 502 for another
\* non-2xx status or a transport failure, 422 for output without a name, and
\* 200 only with a non-empty name; no outcome changes a queue
C31_ParseSongOutcomes ==
    [][\A q \in Requests :
          (aiReq'[q] # aiReq[q] /\ aiReq'[q].pc = "idle") =>
              /\ UNCHANGED <<rooms, disk, fsLive, fsOrder>>
              /\ IF aiReq[q].pc = "idle"
                 THEN /\ aiReq'[q].calls = 0
                      /\ aiReq'[q].res = IF apiKey THEN 400 ELSE 500
                 ELSE /\ aiReq'[q].calls >= 1
                      /\ aiReq'[q].res = RequiredStatus(aiReq'[q])
                      /\ aiReq'[q].res = 200 => aiReq'[q].trackName # ""
                      /\ aiReq'[q].res = 422 => aiReq'[q].status \in 200..299]_vars

C31_Witness ==
    /\ rooms["r1"] # << >>
    /\ aiReq["q1"].res = 200 /\ aiReq["q1"].trackName # ""
    /\ aiReq["q2"].pc = "idle" /\ aiReq["q2"].res \in {429, 502, 422}

----------------------------------------------------------------------------
\* Properties of the lyrics panel.

\* a lyrics field that is a string with a character other than white space
NonBlank(v) == IsString(v) /\ \E i \in 1..Len(v.string) : v.string[i] # " "

\* the records of the search result (none when it is not an array)
ListRecords == IF lyricsList = Null THEN {} ELSE Range(lyricsList.array)

\* C32: pickBestLrclibRecord returns a record of the list with non-blank
\* synced lyrics if the list has one, otherwise a record with non-blank plain
\* lyrics if the list has one, otherwise null; null for an empty list and
\* for an input that is not an array
C32_PickBestPrefersSynced ==
    lyricsBest # NotPicked =>
        IF \E it \in ListRecords : NonBlank(it.syncedLyrics)
        THEN lyricsBest \in ListRecords /\ NonBlank(lyricsBest.syncedLyrics)
        ELSE IF \E it \in ListRecords : NonBlank(it.plainLyrics)
        THEN lyricsBest \in ListRecords /\ NonBlank(lyricsBest.plainLyrics)
        ELSE lyricsBest = Null

\* a list whose first record has only plain lyrics and whose second record
\* has synced lyrics has been searched, and the second record was picked
C32_Witness ==
    /\ lyricsBest # NotPicked
    /\ lyricsList # Null
    /\ Len(lyricsList.array) >= 2
    /\ NonBlank(lyricsList.array[1].plainLyrics)
    /\ ~NonBlank(lyricsList.array[1].syncedLyrics)
    /\ lyricsList.array[1].syncedLyrics # Null
    /\ NonBlank(lyricsList.array[2].syncedLyrics)
    /\ lyricsBest = lyricsList.array[2]

\* C33: every volume stored in the room document or sent to the subscribers of
\* a room in a 'volumeChange' message is an integer from 0 to 100.
C33_VolumesInRange ==
    /\ "volume" \in DOMAIN roomDoc => roomDoc.volume \in 0..100
    /\ \A s \in Sockets : \A i \in 1..Len(inbox[s]) :
           inbox[s][i].type = "volumeChange" => inbox[s][i].volume \in 0..100

----------------------------------------------------------------------------
\* Properties of concurrent commands.

\* the step handles a reorderQueue whose first entry is the head of the
\* room's queue, right after the server handled one of another socket
SecondReorder ==
    /\ last.op = "reorderQueue" /\ last.committed
    /\ last'.op = "reorderQueue" /\ last'.sock # last.sock
    /\ HasRoom(last'.sock)
    /\ sockRoom[last'.sock] = sockRoom[last.sock]
    /\ last'.newQueue # << >>
    /\ last'.newQueue[1].uuid = rooms[sockRoom[last'.sock]][1].uuid

\* C34: of two reorderQueue proposals of different sockets that keep the
\* head, handled one after the other, the second is accepted as the first was
\* and replaces it: the room's queue is the second proposal, and all that is
\* sent is the queueUpdated carrying it, to every subscriber alike
C34_LastReorderWins ==
    [][SecondReorder =>
          LET roomId == sockRoom[last'.sock]
          IN  /\ rooms[roomId] = last.newQueue
              /\ last'.committed
              /\ rooms'[roomId] = last'.newQueue
              /\ \A x \in Sockets :
                     inbox'[x] = IF roomId \in joined[x]
                                 THEN Push(inbox[x], QueueUpdated(roomId, last'.newQueue))
                                 ELSE inbox[x]]_vars

\* s2's proposal has replaced the different order s1 proposed and still shows
C34_Witness ==
    /\ last.op = "reorderQueue" /\ last.sock = "s2" /\ last.committed
    /\ rooms["r1"] = last.newQueue
    /\ clientQueue["s1"] # rooms["r1"]
    /\ clientQueue["s1"] # InitialQueue
    /\ rooms["r1"] # InitialQueue
    /\ Uuids(clientQueue["s1"]) = Uuids(rooms["r1"])
    /\ inbox["s1"] = <<QueueUpdated("r1", rooms["r1"])>>

\* the step handles the songEnded of a socket whose player shows an entry that
\* is no longer in the room's queue, right after the songEnded of another
\* socket that shows the same entry
SecondReport ==
    /\ last.op = "songEnded" /\ last.committed
    /\ last'.op = "songEnded" /\ last'.sock # last.sock
    /\ HasRoom(last'.sock)
    /\ sockRoom[last'.sock] = sockRoom[last.sock]
    /\ clientQueue[last.sock] # << >>
    /\ clientQueue[last'.sock] # << >>
    /\ clientQueue[last'.sock][1].uuid = clientQueue[last.sock][1].uuid
    /\ clientQueue[last'.sock][1].uuid \notin Uuids(rooms[sockRoom[last'.sock]])

\* C35: when two sockets report the end of the same entry, the second report
\* removes nothing: the entry that followed it stays the head of the queue
C35_SecondReportRemovesNothing ==
    [][SecondReport => rooms' = rooms]_vars

\* C36: a socket of a room that emits requestQueue is sent the room's current
\* queue, and is sent the queue of every later commit on the room
C36_RequestQueueAnswered ==
    /\ [][(last'.op = "requestQueue" /\ HasRoom(last'.sock)) =>
             inbox'[last'.sock] =
                 Push(inbox[last'.sock], QueueUpdated(StepRoom, rooms[StepRoom]))]_vars
    /\ [][\A x \in Sockets :
             (last'.committed /\ sockRoom[x] = StepRoom) =>
                 /\ inbox'[x] # << >>
                 /\ inbox'[x][Len(inbox'[x])] = QueueUpdated(StepRoom, rooms'[StepRoom])]_vars

\* C37: whenever lyricsLoading is true, the call of loadLyricsForCurrent that
\* set it sets it back to false
C37_LoadingEventuallyCleared == lyricsLoading ~> ~lyricsLoading

\* how many times p's player was rewound for the command id
Applied(p, id) == Cardinality({i \in 1..Len(seeks[p]) : seeks[p][i] = id})

\* C38: a participant's player is rewound at most once for a replay command
\* id; and once the participant holds an id that was written while its
\* showPlayer was on, with the player on and ready, exactly once
C38_ReplayAppliedExactlyOnce ==
    \A p \in Participants : \A id \in 1..MaxCommands :
        /\ Applied(p, id) <= 1
        /\ (/\ p \in writtenShown[id]
            /\ roomLocal[p].roomReplayCommandId = id
            /\ showPlayer[p]
            /\ playerRef[p]) => Applied(p, id) = 1

\* the first half of C38 alone
ReplayAppliedAtMostOnce ==
    \A p \in Participants : \A id \in 1..MaxCommands : Applied(p, id) <= 1

====
